---- MODULE Spec2Model ----
(***************************************************************************)
(* Capability enforcement core of the microkernel: the capability store    *)
(* (src/src/capability.rs), the agent registry (src/src/task.rs), the IPC  *)
(* endpoints (src/src/ipc.rs), the VFS (src/src/vfs.rs) and the Wasm host  *)
(* syscall adapters (src/src/wasm.rs).                                     *)
(***************************************************************************)
EXTENDS Integers, Sequences, FiniteSets, TLC

VARIABLES
    store,            \* CAPABILITY_STORE: BTreeMap<CapabilityId, Capability>
    next_cap_id,      \* NEXT_CAP_ID
    agents,           \* REGISTRY.agents: BTreeMap<AgentId, Agent>
    reg_next_id,      \* REGISTRY.next_id
    endpoints,        \* IPC_ENDPOINTS: BTreeMap<ProcessId, IpcEndpoint>
    files,            \* VFS.files: Vec<VirtualFile>
    network,          \* NETWORK: Option<NetworkStack> (socket set, frames sent)
    gmem,             \* linear memory of the running guest module
    issued,           \* history: ids returned by create_capability, in lock order
    revoked,          \* history: ids for which revoke_capability returned true
    sending,          \* a send_message call in progress on another thread, or None
    pc,               \* position of the operations in progress, stage by stage, or None
    last              \* the operation performed by the latest step and its result

vars == <<store, next_cap_id, agents, reg_next_id, endpoints, files, network,
          gmem, issued, revoked, sending, pc, last>>

----------------------------------------------------------------------------
(* Bounds of the model *)

\* Capability ids 1..MaxCapId can be issued or appear in a bag.
MaxCapId == 2
\* Longest bag (caps: &[CapabilityId]) the predicates are checked on.
MaxBagLen == 2
\* Largest usize value of the scaled-down machine word (stands for usize::MAX).
WordMax == 3

CapIds == 1..MaxCapId
Addrs == 0..WordMax
Bags == UNION {[1..n -> CapIds] : n \in 0..MaxBagLen}

EmptyMap == [k \in {} |-> 0]

\* usize addition in a release build: wraps modulo 2^w.
wrapping_add(a, b) == (a + b) % (WordMax + 1)

----------------------------------------------------------------------------
(* capability.rs: Capability values used as inputs *)

Memory(base, size, read, write, execute) ==
    [tag |-> "Memory", base |-> base, size |-> size, read |-> read,
     write |-> write, execute |-> execute]
Interrupt(irq) == [tag |-> "Interrupt", irq |-> irq]
Process(pid, can_send, can_receive) ==
    [tag |-> "Process", pid |-> pid, can_send |-> can_send, can_receive |-> can_receive]
Spawn(max_children) == [tag |-> "Spawn", max_children |-> max_children]
Network == [tag |-> "Network"]

\* Option::None of validate_capability
None == [tag |-> "None"]

\* NETWORK before net::init ran: Option::None
NoNetwork == [up |-> FALSE, sockets |-> {}, frames |-> 0]

\* Memory capabilities: a read-only range [1,3), a write-only range [1,3), an
\* empty read-write range, and a read-write range ending at the top of the
\* address space (base + size = usize::MAX + 1).
MemCaps ==
    { Memory(1, 2, TRUE, FALSE, FALSE),
      Memory(1, 2, FALSE, TRUE, FALSE),
      Memory(1, 0, TRUE, TRUE, FALSE),
      Memory(WordMax, 1, TRUE, TRUE, FALSE) }
ProcCaps ==
    { Process(2, TRUE, FALSE), Process(2, FALSE, TRUE), Process(1, TRUE, TRUE) }
StoreCaps == MemCaps \cup ProcCaps \cup {Spawn(5), Network, Interrupt(1)}

Pids == 0..2

----------------------------------------------------------------------------
(* capability.rs: store operations *)

validate_capability(cap_id) ==
    IF cap_id \in DOMAIN store THEN store[cap_id] ELSE None

\* BTreeMap::insert
map_insert(m, k, v) == [x \in DOMAIN m \cup {k} |-> IF x = k THEN v ELSE m[x]]
\* BTreeMap::remove
map_remove(m, k) == [x \in DOMAIN m \ {k} |-> m[x]]

\* A create that hands out the lowest id not in the store (recycles revoked ids).
create_capability_recycle(cap) ==
    LET cap_id == CHOOSE i \in 1..(MaxCapId + 1) :
                     /\ i \notin DOMAIN store
                     /\ \A j \in 1..(i - 1) : j \in DOMAIN store
    IN  /\ cap_id <= MaxCapId
        /\ store' = map_insert(store, cap_id, cap)
        /\ next_cap_id' = next_cap_id
        /\ issued' = Append(issued, cap_id)
        /\ last' = [op |-> "create_capability", arg |-> cap, ret |-> cap_id]
        /\ UNCHANGED <<agents, reg_next_id, endpoints, files, network, gmem,
                       revoked>>

create_capability(cap) ==
    /\ next_cap_id <= MaxCapId
    /\ LET cap_id == next_cap_id
       IN  /\ next_cap_id' = next_cap_id + 1
           /\ store' = map_insert(store, cap_id, cap)
           /\ issued' = Append(issued, cap_id)
           /\ last' = [op |-> "create_capability", arg |-> cap, ret |-> cap_id]
    /\ UNCHANGED <<agents, reg_next_id, endpoints, files, network, gmem, revoked>>

ValidateCapability(cap_id) ==
    /\ last' = [op |-> "validate_capability", arg |-> cap_id,
                ret |-> validate_capability(cap_id)]
    /\ UNCHANGED <<store, next_cap_id, agents, reg_next_id, endpoints, files,
                   network, gmem, issued, revoked>>

\* A revoke that looks the id up (get) instead of removing it.
revoke_capability_get(cap_id) ==
    /\ last' = [op |-> "revoke_capability", arg |-> cap_id,
                ret |-> cap_id \in DOMAIN store]
    /\ revoked' = IF cap_id \in DOMAIN store THEN revoked \cup {cap_id} ELSE revoked
    /\ UNCHANGED <<store, next_cap_id, agents, reg_next_id, endpoints, files,
                   network, gmem, issued>>

\* A revoke that removes every id up to and including the given one.
revoke_capability_range(cap_id) ==
    /\ store' = [x \in {y \in DOMAIN store : y > cap_id} |-> store[x]]
    /\ last' = [op |-> "revoke_capability", arg |-> cap_id,
                ret |-> cap_id \in DOMAIN store]
    /\ revoked' = IF cap_id \in DOMAIN store THEN revoked \cup {cap_id} ELSE revoked
    /\ UNCHANGED <<next_cap_id, agents, reg_next_id, endpoints, files, network,
                   gmem, issued>>

revoke_capability(cap_id) ==
    /\ store' = map_remove(store, cap_id)
    /\ last' = [op |-> "revoke_capability", arg |-> cap_id,
                ret |-> cap_id \in DOMAIN store]
    /\ revoked' = IF cap_id \in DOMAIN store THEN revoked \cup {cap_id} ELSE revoked
    /\ UNCHANGED <<next_cap_id, agents, reg_next_id, endpoints, files, network,
                   gmem, issued>>

----------------------------------------------------------------------------
(* capability.rs: find_capability and the derived predicates *)

\* caps.iter().filter_map(|id| store.get(id)), stopping at the first id that
\* does not resolve (map_while in place of filter_map).
RECURSIVE map_while_from(_, _)
map_while_from(caps, i) ==
    IF i > Len(caps) \/ caps[i] \notin DOMAIN store THEN <<>>
    ELSE <<store[caps[i]]>> \o map_while_from(caps, i + 1)
filter_map_stop(caps) == map_while_from(caps, 1)

\* caps.iter().filter_map(|id| store.get(id))
RECURSIVE filter_map_from(_, _)
filter_map_from(caps, i) ==
    IF i > Len(caps) THEN <<>>
    ELSE IF caps[i] \in DOMAIN store
         THEN <<store[caps[i]]>> \o filter_map_from(caps, i + 1)
         ELSE filter_map_from(caps, i + 1)
filter_map(caps) == filter_map_from(caps, 1)

\* The match guard `addr >= *base && addr < *base + *size` as a release build
\* evaluates it (the sum wraps).
in_range(c, addr) == addr >= c.base /\ addr < wrapping_add(c.base, c.size)

\* The guard's sum is evaluated (after `addr >= *base` held) and overflows.
guard_overflows(c, addr) == addr >= c.base /\ c.base + c.size > WordMax

\* The closures the derived predicates pass to find_capability, as values.
read_closure(addr) == [f |-> "can_read_memory", addr |-> addr]
write_closure(addr) == [f |-> "can_write_memory", addr |-> addr]
send_closure(target_pid) == [f |-> "can_send_to", target_pid |-> target_pid]
spawn_closure == [f |-> "can_spawn"]
network_closure == [f |-> "can_access_network"]
Closures ==
    {read_closure(a) : a \in Addrs} \cup {write_closure(a) : a \in Addrs}
    \cup {send_closure(p) : p \in Pids} \cup {spawn_closure, network_closure}

\* predicate(c): the matches! pattern and guard of each closure.
call(predicate, c) ==
    CASE predicate.f = "can_read_memory" ->
           c.tag = "Memory" /\ c.read /\ in_range(c, predicate.addr)
      [] predicate.f = "can_write_memory" ->
           c.tag = "Memory" /\ c.write /\ in_range(c, predicate.addr)
      [] predicate.f = "can_send_to" ->
           c.tag = "Process" /\ c.can_send /\ c.pid = predicate.target_pid
      [] predicate.f = "can_spawn" -> c.tag = "Spawn"
      [] predicate.f = "can_access_network" -> c.tag = "Network"

\* Iterator::any: scans in order, stops at the first element satisfying it.
RECURSIVE any_from(_, _, _)
any_from(items, predicate, i) ==
    IF i > Len(items) THEN FALSE
    ELSE IF call(predicate, items[i]) THEN TRUE
         ELSE any_from(items, predicate, i + 1)
any(items, predicate) == any_from(items, predicate, 1)

find_capability(caps, predicate) == any(filter_map(caps), predicate)

can_read_memory(caps, addr) == find_capability(caps, read_closure(addr))

can_write_memory(caps, addr) == find_capability(caps, write_closure(addr))

\* A can_send_to that forgets the `can_send: true` part of the pattern.
can_send_to_any_flag(caps, target_pid) ==
    \E i \in 1..Len(filter_map(caps)) :
        /\ filter_map(caps)[i].tag = "Process"
        /\ filter_map(caps)[i].pid = target_pid

can_send_to(caps, target_pid) == find_capability(caps, send_closure(target_pid))

can_spawn(caps) == find_capability(caps, spawn_closure)

\* A can_access_network that also accepts a Spawn capability.
can_access_network_or_spawn(caps) ==
    find_capability(caps, network_closure) \/ find_capability(caps, spawn_closure)

can_access_network(caps) == find_capability(caps, network_closure)

\* In a build with overflow checks, evaluating can_read_memory /
\* can_write_memory panics when the scan reaches, before any match, a Memory
\* capability with the requested access bit whose guard sum overflows.
mem_check_panics(caps, addr, access) ==
    LET items == filter_map(caps)
        closure == IF access = "read" THEN read_closure(addr)
                   ELSE write_closure(addr)
        Bit(c) == IF access = "read" THEN c.read ELSE c.write
    IN  \E i \in 1..Len(items) :
          /\ items[i].tag = "Memory"
          /\ Bit(items[i])
          /\ guard_overflows(items[i], addr)
          /\ \A j \in 1..(i - 1) : ~call(closure, items[j])

----------------------------------------------------------------------------
(* task.rs: the agent registry *)

\* Agents 1..MaxAgents can be spawned.
MaxAgents == 2
\* Longest bag grant_capability_to_agent still appends to.
MaxAgentBag == 1
AgentIds == 1..MaxAgents
Names == {"agent"}

\* A spawn_agent that does not advance next_id.
spawn_agent_same_id(name, capabilities) ==
    /\ reg_next_id <= MaxAgents
    /\ agents' = map_insert(agents, reg_next_id,
           [id |-> reg_next_id, name |-> name, capabilities |-> capabilities,
            state |-> "Running"])
    /\ last' = [op |-> "spawn_agent", arg |-> capabilities, ret |-> reg_next_id]
    /\ UNCHANGED <<store, next_cap_id, reg_next_id, endpoints, files, network,
                   gmem, issued, revoked>>

spawn_agent(name, capabilities) ==
    /\ reg_next_id <= MaxAgents
    /\ LET id == reg_next_id
       IN  /\ reg_next_id' = reg_next_id + 1
           /\ agents' = map_insert(agents, id,
                  [id |-> id, name |-> name, capabilities |-> capabilities,
                   state |-> "Running"])
           /\ last' = [op |-> "spawn_agent", arg |-> capabilities, ret |-> id]
    /\ UNCHANGED <<store, next_cap_id, endpoints, files, network, gmem, issued,
                   revoked>>

agent_capabilities(agent_id) ==
    IF agent_id \in DOMAIN agents THEN agents[agent_id].capabilities ELSE <<>>

agent_pid(agent_id) == agent_id

\* Vec::push on the agent's bag, when the agent is in the registry.
push_capability(agent_id, cap) ==
    IF agent_id \in DOMAIN agents
    THEN [agents EXCEPT ![agent_id].capabilities = Append(@, cap)]
    ELSE agents

grant_capability_to_agent(agent_id, cap) ==
    /\ Len(agent_capabilities(agent_id)) < MaxAgentBag
    /\ agents' = push_capability(agent_id, cap)
    /\ last' = [op |-> "grant_capability_to_agent", arg |-> <<agent_id, cap>>,
                ret |-> 0]
    /\ UNCHANGED <<store, next_cap_id, reg_next_id, endpoints, files, network,
                   gmem, issued, revoked>>

\* A terminate_agent that also revokes the capabilities in the agent's bag.
terminate_agent_revoking(agent_id) ==
    /\ agents' = IF agent_id \in DOMAIN agents
                 THEN [agents EXCEPT ![agent_id].state = "Terminated"]
                 ELSE agents
    /\ store' = [k \in DOMAIN store \
                      {agent_capabilities(agent_id)[i] :
                          i \in 1..Len(agent_capabilities(agent_id))}
                 |-> store[k]]
    /\ last' = [op |-> "terminate_agent", arg |-> agent_id, ret |-> 0]
    /\ UNCHANGED <<next_cap_id, reg_next_id, endpoints, files, network,
                   gmem, issued, revoked>>

terminate_agent(agent_id) ==
    /\ agents' = IF agent_id \in DOMAIN agents
                 THEN [agents EXCEPT ![agent_id].state = "Terminated"]
                 ELSE agents
    /\ last' = [op |-> "terminate_agent", arg |-> agent_id, ret |-> 0]
    /\ UNCHANGED <<store, next_cap_id, reg_next_id, endpoints, files, network,
                   gmem, issued, revoked>>

----------------------------------------------------------------------------
(* ipc.rs: endpoints and messages *)

\* IpcEndpoint.max_messages set by create_endpoint
max_messages == 32
\* Reserved pid of the Kernel Supervisor endpoint
KERNEL_SUPERVISOR_PID == 0

\* Longest queue the kernel specification explores.
MaxQueue == 1

Message(sender, data, capabilities) ==
    [sender |-> sender, data |-> data, capabilities |-> capabilities]

\* A create_endpoint that inserts without looking for an existing endpoint.
create_endpoint_overwrite(process_id) ==
    /\ endpoints' = map_insert(endpoints, process_id,
                        [messages |-> <<>>, max_messages |-> max_messages])
    /\ last' = [op |-> "create_endpoint", arg |-> process_id, ret |-> "Ok"]
    /\ UNCHANGED <<store, next_cap_id, agents, reg_next_id, files, network, gmem,
                   issued, revoked>>

create_endpoint(process_id) ==
    /\ IF process_id \in DOMAIN endpoints
       THEN /\ endpoints' = endpoints
            /\ last' = [op |-> "create_endpoint", arg |-> process_id,
                        ret |-> "Endpoint already exists"]
       ELSE /\ endpoints' = map_insert(endpoints, process_id,
                   [messages |-> <<>>, max_messages |-> max_messages])
            /\ last' = [op |-> "create_endpoint", arg |-> process_id, ret |-> "Ok"]
    /\ UNCHANGED <<store, next_cap_id, agents, reg_next_id, files, network, gmem,
                   issued, revoked>>

\* Result of send_message and the endpoint map it leaves.
\* A send_message without the validation loop.
send_result_unvalidated(recipient, capabilities) ==
    IF recipient \notin DOMAIN endpoints THEN "No such endpoint"
    ELSE IF Len(endpoints[recipient].messages) >= endpoints[recipient].max_messages
         THEN "Message queue full"
    ELSE "Ok"

\* A send_result that looks for the endpoint and its room before it
\* validates the capabilities.
send_result_endpoint_first(recipient, capabilities) ==
    IF recipient \notin DOMAIN endpoints THEN "No such endpoint"
    ELSE IF Len(endpoints[recipient].messages) >= endpoints[recipient].max_messages
         THEN "Message queue full"
    ELSE IF \E i \in 1..Len(capabilities) : validate_capability(capabilities[i]) = None
    THEN "Invalid capability"
    ELSE "Ok"

\* A send_result whose queue test lets one message too many in.
send_result_off_by_one(recipient, capabilities) ==
    IF \E i \in 1..Len(capabilities) : validate_capability(capabilities[i]) = None
    THEN "Invalid capability"
    ELSE IF recipient \notin DOMAIN endpoints THEN "No such endpoint"
    ELSE IF Len(endpoints[recipient].messages) > endpoints[recipient].max_messages
         THEN "Message queue full"
    ELSE "Ok"

send_result(recipient, capabilities) ==
    IF \E i \in 1..Len(capabilities) : validate_capability(capabilities[i]) = None
    THEN "Invalid capability"
    ELSE IF recipient \notin DOMAIN endpoints THEN "No such endpoint"
    ELSE IF Len(endpoints[recipient].messages) >= endpoints[recipient].max_messages
         THEN "Message queue full"
    ELSE "Ok"

\* A send_effect that enqueues the message without its payload.
send_effect_no_data(sender, recipient, data, capabilities) ==
    IF send_result(recipient, capabilities) = "Ok"
    THEN [endpoints EXCEPT ![recipient].messages =
              Append(@, Message(sender, <<>>, capabilities))]
    ELSE endpoints

send_effect(sender, recipient, data, capabilities) ==
    IF send_result(recipient, capabilities) = "Ok"
    THEN [endpoints EXCEPT ![recipient].messages =
              Append(@, Message(sender, data, capabilities))]
    ELSE endpoints

send_message(sender, recipient, data, capabilities) ==
    /\ endpoints' = send_effect(sender, recipient, data, capabilities)
    /\ last' = [op |-> "send_message",
                arg |-> <<sender, recipient, data, capabilities>>,
                ret |-> send_result(recipient, capabilities)]
    /\ UNCHANGED <<store, next_cap_id, agents, reg_next_id, files, network, gmem,
                   issued, revoked>>

\* A receive_message that moves the message's capabilities into the
\* receiver's bag.
receive_message_transfer(process_id) ==
    /\ IF process_id \in DOMAIN endpoints /\ endpoints[process_id].messages # <<>>
       THEN /\ endpoints' = [endpoints EXCEPT ![process_id].messages = Tail(@)]
            /\ agents' = IF process_id \in DOMAIN agents
                         THEN [agents EXCEPT ![process_id].capabilities =
                                 @ \o Head(endpoints[process_id].messages).capabilities]
                         ELSE agents
            /\ last' = [op |-> "receive_message", arg |-> process_id,
                        ret |-> Head(endpoints[process_id].messages)]
       ELSE /\ endpoints' = endpoints
            /\ agents' = agents
            /\ last' = [op |-> "receive_message", arg |-> process_id, ret |-> None]
    /\ UNCHANGED <<store, next_cap_id, reg_next_id, files, network, gmem,
                   issued, revoked>>

\* A receive_message that takes the newest message (Vec::pop).
receive_message_newest(process_id) ==
    /\ IF process_id \in DOMAIN endpoints /\ endpoints[process_id].messages # <<>>
       THEN /\ endpoints' = [endpoints EXCEPT ![process_id].messages =
                                 SubSeq(@, 1, Len(@) - 1)]
            /\ last' = [op |-> "receive_message", arg |-> process_id,
                        ret |-> endpoints[process_id].messages[
                                    Len(endpoints[process_id].messages)]]
       ELSE /\ endpoints' = endpoints
            /\ last' = [op |-> "receive_message", arg |-> process_id, ret |-> None]
    /\ UNCHANGED <<store, next_cap_id, agents, reg_next_id, files, network, gmem,
                   issued, revoked>>

receive_message(process_id) ==
    /\ IF process_id \in DOMAIN endpoints /\ endpoints[process_id].messages # <<>>
       THEN /\ endpoints' = [endpoints EXCEPT ![process_id].messages = Tail(@)]
            /\ last' = [op |-> "receive_message", arg |-> process_id,
                        ret |-> Head(endpoints[process_id].messages)]
       ELSE /\ endpoints' = endpoints
            /\ last' = [op |-> "receive_message", arg |-> process_id, ret |-> None]
    /\ UNCHANGED <<store, next_cap_id, agents, reg_next_id, files, network, gmem,
                   issued, revoked>>

----------------------------------------------------------------------------
(* vfs.rs: the virtual file system *)

VirtualFile(name, data, owner_pid, read_only) ==
    [name |-> name, data |-> data, owner_pid |-> owner_pid, read_only |-> read_only]

\* A starts_with that also accepts a prefix longer than s when s begins it.
starts_with_either(s, prefix) ==
    \A k \in 1..Len(prefix) : k <= Len(s) => s[k] = prefix[k]

\* str::starts_with on byte strings
starts_with(s, prefix) ==
    Len(prefix) <= Len(s) /\ SubSeq(s, 1, Len(prefix)) = prefix

\* Index of the first file with that name, 0 when there is none.
find_file(name) ==
    IF \E i \in 1..Len(files) : files[i].name = name
    THEN CHOOSE i \in 1..Len(files) :
            files[i].name = name /\ \A j \in 1..(i - 1) : files[j].name # name
    ELSE 0

open_file(name) ==
    IF find_file(name) = 0 THEN None
    ELSE [tag |-> "Some", data |-> files[find_file(name)].data]

\* A list_files_prefix without the filter: list_files.
list_files_prefix_unfiltered(prefix) ==
    [i \in 1..Len(files) |-> files[i].name]

list_files_prefix(prefix) ==
    LET names == [i \in 1..Len(files) |-> files[i].name]
    IN  SelectSeq(names, LAMBDA n : starts_with(n, prefix))

\* write_file: its return value and the file list it leaves.
write_file_ok(name) ==
    find_file(name) = 0 \/ ~files[find_file(name)].read_only

\* A write_file_effect that overwrites read-only entries too.
write_file_effect_forced(name, data, owner_pid) ==
    IF find_file(name) = 0
    THEN Append(files, VirtualFile(name, data, owner_pid, FALSE))
    ELSE [files EXCEPT ![find_file(name)].data = data,
                       ![find_file(name)].owner_pid = owner_pid]

write_file_effect(name, data, owner_pid) ==
    IF find_file(name) = 0
    THEN Append(files, VirtualFile(name, data, owner_pid, FALSE))
    ELSE IF files[find_file(name)].read_only THEN files
    ELSE [files EXCEPT ![find_file(name)].data = data,
                       ![find_file(name)].owner_pid = owner_pid]

\* register_file: the initramfs loader pushes a read-only system file.
register_file(name, data) ==
    /\ files' = Append(files, VirtualFile(name, data, 0, TRUE))
    /\ last' = [op |-> "register_file", arg |-> <<name, data>>, ret |-> 0]
    /\ UNCHANGED <<store, next_cap_id, agents, reg_next_id, endpoints, network,
                   gmem, issued, revoked>>

write_file(name, data, owner_pid) ==
    /\ files' = write_file_effect(name, data, owner_pid)
    /\ last' = [op |-> "write_file", arg |-> <<name, data, owner_pid>>,
                ret |-> write_file_ok(name)]
    /\ UNCHANGED <<store, next_cap_id, agents, reg_next_id, endpoints, network,
                   gmem, issued, revoked>>

\* A retain that drops every entry of that name, read-only or not.
retain_by_name(name) == SelectSeq(files, LAMBDA f : f.name # name)

\* Vec::retain with the closure of delete_file
retain(name) == SelectSeq(files, LAMBDA f : f.name # name \/ f.read_only)

delete_file(name) ==
    /\ files' = retain(name)
    /\ last' = [op |-> "delete_file", arg |-> name,
                ret |-> Len(retain(name)) < Len(files)]
    /\ UNCHANGED <<store, next_cap_id, agents, reg_next_id, endpoints, network,
                   gmem, issued, revoked>>

----------------------------------------------------------------------------
(* FileSystem capability and its predicates *)

FileSystem(path_prefix, read, write) ==
    [tag |-> "FileSystem", path_prefix |-> path_prefix, read |-> read,
     write |-> write]

can_read_file(caps, path) ==
    \E i \in 1..Len(filter_map(caps)) :
        LET c == filter_map(caps)[i]
        IN  c.tag = "FileSystem" /\ c.read /\ starts_with(path, c.path_prefix)

can_write_file(caps, path) ==
    \E i \in 1..Len(filter_map(caps)) :
        LET c == filter_map(caps)[i]
        IN  c.tag = "FileSystem" /\ c.write /\ starts_with(path, c.path_prefix)

----------------------------------------------------------------------------
(* wasm.rs: guest linear memory *)

\* Size in bytes of the guest's linear memory.
MemSize == 7

\* memory.read(&caller, ptr, &mut buf) with buf.len() = len
read_ok(ptr, len) == ptr + len <= Len(gmem.bytes)
read_bytes(ptr, len) == SubSeq(gmem.bytes, ptr + 1, ptr + len)

\* memory.write(&mut caller, ptr, bytes)
write_ok(bytes_at, ptr, data) == ptr + Len(data) <= Len(bytes_at)
write_bytes(bytes_at, ptr, data) ==
    [i \in 1..Len(bytes_at) |->
        IF i > ptr /\ i <= ptr + Len(data) THEN data[i - ptr] ELSE bytes_at[i]]

\* core::str::from_utf8 on the bytes a guest memory of this model can hold:
\* ASCII bytes and 0xFF, which no UTF-8 string contains.
from_utf8_ok(buf) == \A i \in 1..Len(buf) : buf[i] < 128

\* The four bytes of n, most significant first.
to_be_bytes(n) ==
    <<(n \div 16777216) % 256, (n \div 65536) % 256, (n \div 256) % 256, n % 256>>

\* u32::to_le_bytes
to_le_bytes(n) ==
    <<n % 256, (n \div 256) % 256, (n \div 65536) % 256, (n \div 16777216) % 256>>

\* Decimal digits of n as ASCII bytes ({} in format!).
RECURSIVE decimal(_)
decimal(n) == IF n < 10 THEN <<48 + n>> ELSE decimal(n \div 10) \o <<48 + (n % 10)>>

\* [String].join("\n")
RECURSIVE join_from(_, _)
join_from(names, i) ==
    IF i > Len(names) THEN <<>>
    ELSE IF i = Len(names) THEN names[i]
    ELSE names[i] \o <<10>> \o join_from(names, i + 1)
join(names) == join_from(names, 1)

\* "CAP_REQUEST:" as bytes
CAP_REQUEST == <<67, 65, 80, 95, 82, 69, 81, 85, 69, 83, 84, 58>>

\* The outcome of a host call that changes nothing but `last`.
Returns(op, ret, trap) ==
    /\ last' = [op |-> op, ret |-> ret, trap |-> trap, panic |-> FALSE]
    /\ UNCHANGED <<store, next_cap_id, agents, reg_next_id, endpoints, files,
                   network, gmem, issued, revoked>>

HostResult(op, ret, trap) ==
    [op |-> op, ret |-> ret, trap |-> trap, panic |-> FALSE]

\* Bytes the kernel heap can provide for one buffer; the guest's linear memory
\* lives in the same heap.
HeapBytes == 8

\* alloc::vec![0u8; len]
alloc_ok(len) == len <= HeapBytes

\* The allocation fails: alloc_error_handler panics and the kernel halts.
Panics(op) ==
    /\ last' = [op |-> op, ret |-> 0, trap |-> FALSE, panic |-> TRUE]
    /\ UNCHANGED <<store, next_cap_id, agents, reg_next_id, endpoints, files,
                   network, gmem, issued, revoked>>

GatedOps == {"send_ipc", "tcp_request", "resolve_dns", "file_read", "file_write",
             "file_list"}
HostOps == GatedOps \cup {"debug_log", "request_capability"}

\* The kernel has panicked.
Halted == last.op \in HostOps /\ last.panic

----------------------------------------------------------------------------
(* wasm.rs: the host syscall adapters; caller_pid is WasmState.agent_pid *)

debug_log(caller_pid, ptr, len) ==
    IF gmem.exported /\ ~alloc_ok(len) THEN Panics("debug_log")
    ELSE Returns("debug_log", 0, ~gmem.exported \/ ~read_ok(ptr, len))

\* A send_ipc that takes the sender of the message from the call's arguments.
send_ipc_sender_from_guest(caller_pid, target_pid, ptr, len) ==
    LET buf == read_bytes(ptr, len)
        sender_caps == agent_capabilities(caller_pid)
    IN  IF gmem.exported /\ ~alloc_ok(len) THEN Panics("send_ipc")
        ELSE IF ~gmem.exported \/ ~read_ok(ptr, len)
        THEN Returns("send_ipc", 0, TRUE)
        ELSE IF ~can_send_to(sender_caps, target_pid)
        THEN Returns("send_ipc", 2, FALSE)
        ELSE /\ endpoints' = send_effect(target_pid, target_pid, buf, <<>>)
             /\ last' = HostResult("send_ipc",
                   IF send_result(target_pid, <<>>) = "Ok" THEN 0 ELSE 1, FALSE)
             /\ UNCHANGED <<store, next_cap_id, agents, reg_next_id, files,
                            network, gmem, issued, revoked>>

\* A send_ipc that reports success whatever send_message returned.
send_ipc_always_ok(caller_pid, target_pid, ptr, len) ==
    LET buf == read_bytes(ptr, len)
        sender_caps == agent_capabilities(caller_pid)
    IN  IF gmem.exported /\ ~alloc_ok(len) THEN Panics("send_ipc")
        ELSE IF ~gmem.exported \/ ~read_ok(ptr, len)
        THEN Returns("send_ipc", 0, TRUE)
        ELSE IF ~can_send_to(sender_caps, target_pid)
        THEN Returns("send_ipc", 2, FALSE)
        ELSE /\ endpoints' = send_effect(caller_pid, target_pid, buf, <<>>)
             /\ last' = HostResult("send_ipc", 0, FALSE)
             /\ UNCHANGED <<store, next_cap_id, agents, reg_next_id, files,
                            network, gmem, issued, revoked>>

\* A send_ipc that hands the message to send_message before it looks at the
\* caller's capabilities.
send_ipc_send_first(caller_pid, target_pid, ptr, len) ==
    LET buf == read_bytes(ptr, len)
        sender_caps == agent_capabilities(caller_pid)
    IN  IF gmem.exported /\ ~alloc_ok(len) THEN Panics("send_ipc")
        ELSE IF ~gmem.exported \/ ~read_ok(ptr, len)
        THEN Returns("send_ipc", 0, TRUE)
        ELSE /\ endpoints' = send_effect(caller_pid, target_pid, buf, <<>>)
             /\ last' = HostResult("send_ipc",
                   IF ~can_send_to(sender_caps, target_pid) THEN 2
                   ELSE IF send_result(target_pid, <<>>) = "Ok" THEN 0 ELSE 1, FALSE)
             /\ UNCHANGED <<store, next_cap_id, agents, reg_next_id, files,
                            network, gmem, issued, revoked>>

send_ipc(caller_pid, target_pid, ptr, len) ==
    LET buf == read_bytes(ptr, len)
        sender_caps == agent_capabilities(caller_pid)
    IN  IF gmem.exported /\ ~alloc_ok(len) THEN Panics("send_ipc")
        ELSE IF ~gmem.exported \/ ~read_ok(ptr, len)
        THEN Returns("send_ipc", 0, TRUE)
        ELSE IF ~can_send_to(sender_caps, target_pid)
        THEN Returns("send_ipc", 2, FALSE)
        ELSE /\ endpoints' = send_effect(caller_pid, target_pid, buf, <<>>)
             /\ last' = HostResult("send_ipc",
                   IF send_result(target_pid, <<>>) = "Ok" THEN 0 ELSE 1, FALSE)
             /\ UNCHANGED <<store, next_cap_id, agents, reg_next_id, files,
                            network, gmem, issued, revoked>>

\* socket.connect(cx, (ip, port as u16), 49152): refused for port 0 and for
\* the unspecified address.
connect_ok(ip, port) == port % 65536 # 0 /\ ip # <<0, 0, 0, 0>>

\* iface.poll between sockets.add and sockets.remove: one frame leaves.
poll_once(net) == [net EXCEPT !.frames = @ + 1]

tcp_request(caller_pid, ip_ptr, port, ptr, len) ==
    LET caps == agent_capabilities(caller_pid)
    IN  IF ~gmem.exported
        THEN Returns("tcp_request", 0, TRUE)
        ELSE IF ~can_access_network(caps)
        THEN Returns("tcp_request", 2, FALSE)
        ELSE IF ~read_ok(ip_ptr, 4)
        THEN Returns("tcp_request", 0, TRUE)
        ELSE IF ~alloc_ok(len) THEN Panics("tcp_request")
        ELSE IF ~read_ok(ptr, len)
        THEN Returns("tcp_request", 0, TRUE)
        ELSE IF network.up /\ connect_ok(read_bytes(ip_ptr, 4), port)
        THEN /\ network' = poll_once(network)
             /\ last' = HostResult("tcp_request", 0, FALSE)
             /\ UNCHANGED <<store, next_cap_id, agents, reg_next_id, endpoints,
                            files, gmem, issued, revoked>>
        ELSE Returns("tcp_request", 1, FALSE)

\* dns::resolve: None without a network stack; otherwise the query is sent and
\* the answer is whatever the resolver returned within the polling budget.
resolve_dns(caller_pid, name_ptr, name_len, out_ip_ptr, answer) ==
    LET caps == agent_capabilities(caller_pid)
        name_buf == read_bytes(name_ptr, name_len)
        result == IF network.up THEN answer ELSE None
        sent == IF network.up THEN poll_once(network) ELSE network
    IN  IF ~gmem.exported
        THEN Returns("resolve_dns", 0, TRUE)
        ELSE IF ~can_access_network(caps)
        THEN Returns("resolve_dns", 2, FALSE)
        ELSE IF ~alloc_ok(name_len) THEN Panics("resolve_dns")
        ELSE IF ~read_ok(name_ptr, name_len) \/ ~from_utf8_ok(name_buf)
        THEN Returns("resolve_dns", 0, TRUE)
        ELSE /\ network' = sent
             /\ IF result = None
                THEN /\ gmem' = gmem
                     /\ last' = HostResult("resolve_dns", 1, FALSE)
                ELSE IF ~write_ok(gmem.bytes, out_ip_ptr, result.ip)
                THEN /\ gmem' = gmem
                     /\ last' = HostResult("resolve_dns", 0, TRUE)
                ELSE /\ gmem' = [gmem EXCEPT !.bytes =
                                    write_bytes(@, out_ip_ptr, result.ip)]
                     /\ last' = HostResult("resolve_dns", 0, FALSE)
             /\ UNCHANGED <<store, next_cap_id, agents, reg_next_id, endpoints,
                            files, issued, revoked>>

\* Writes data at out_ptr, then its length (u32, little endian) at out_len_ptr;
\* a failed write traps, the writes before it stay.
write_out(op, out_ptr, out_len_ptr, data) ==
    LET first == write_bytes(gmem.bytes, out_ptr, data)
        write_len == to_le_bytes(Len(data))
    IN  /\ IF ~write_ok(gmem.bytes, out_ptr, data)
           THEN /\ gmem' = gmem
                /\ last' = HostResult(op, 0, TRUE)
           ELSE IF ~write_ok(first, out_len_ptr, write_len)
           THEN /\ gmem' = [gmem EXCEPT !.bytes = first]
                /\ last' = HostResult(op, 0, TRUE)
           ELSE /\ gmem' = [gmem EXCEPT !.bytes =
                               write_bytes(first, out_len_ptr, write_len)]
                /\ last' = HostResult(op, 0, FALSE)
        /\ UNCHANGED <<store, next_cap_id, agents, reg_next_id, endpoints, files,
                       network, issued, revoked>>

\* A file_read that opens the file before it asks for the authority.
file_read_lookup_first(caller_pid, path_ptr, path_len, out_ptr, out_len_ptr) ==
    LET caps == agent_capabilities(caller_pid)
        path == read_bytes(path_ptr, path_len)
    IN  IF gmem.exported /\ ~alloc_ok(path_len) THEN Panics("file_read")
        ELSE IF ~gmem.exported \/ ~read_ok(path_ptr, path_len)
                \/ ~from_utf8_ok(path)
        THEN Returns("file_read", 0, TRUE)
        ELSE IF open_file(path) = None
        THEN Returns("file_read", 3, FALSE)
        ELSE IF ~can_read_file(caps, path)
        THEN Returns("file_read", 2, FALSE)
        ELSE write_out("file_read", out_ptr, out_len_ptr,
                       open_file(path).data)

file_read(caller_pid, path_ptr, path_len, out_ptr, out_len_ptr) ==
    LET caps == agent_capabilities(caller_pid)
        path == read_bytes(path_ptr, path_len)
    IN  IF gmem.exported /\ ~alloc_ok(path_len) THEN Panics("file_read")
        ELSE IF ~gmem.exported \/ ~read_ok(path_ptr, path_len)
                \/ ~from_utf8_ok(path)
        THEN Returns("file_read", 0, TRUE)
        ELSE IF ~can_read_file(caps, path)
        THEN Returns("file_read", 2, FALSE)
        ELSE IF open_file(path) = None
        THEN Returns("file_read", 3, FALSE)
        ELSE write_out("file_read", out_ptr, out_len_ptr,
                       open_file(path).data)

\* A file_write that reports a write the VFS refused as a denial.
file_write_refusal_as_denial(caller_pid, path_ptr, path_len, data_ptr, data_len) ==
    LET caps == agent_capabilities(caller_pid)
        path == read_bytes(path_ptr, path_len)
        data_buf == read_bytes(data_ptr, data_len)
    IN  IF gmem.exported /\ ~alloc_ok(path_len) THEN Panics("file_write")
        ELSE IF ~gmem.exported \/ ~read_ok(path_ptr, path_len)
                \/ ~from_utf8_ok(path)
        THEN Returns("file_write", 0, TRUE)
        ELSE IF ~can_write_file(caps, path)
        THEN Returns("file_write", 2, FALSE)
        ELSE IF ~alloc_ok(data_len) THEN Panics("file_write")
        ELSE IF ~read_ok(data_ptr, data_len)
        THEN Returns("file_write", 0, TRUE)
        ELSE /\ files' = write_file_effect(path, data_buf, caller_pid)
             /\ last' = HostResult("file_write",
                                   IF write_file_ok(path) THEN 0 ELSE 2, FALSE)
             /\ UNCHANGED <<store, next_cap_id, agents, reg_next_id, endpoints,
                            network, gmem, issued, revoked>>

\* A file_write that never consults can_write_file.
file_write_unchecked(caller_pid, path_ptr, path_len, data_ptr, data_len) ==
    LET path == read_bytes(path_ptr, path_len)
        data_buf == read_bytes(data_ptr, data_len)
    IN  IF gmem.exported /\ ~alloc_ok(path_len) THEN Panics("file_write")
        ELSE IF ~gmem.exported \/ ~read_ok(path_ptr, path_len)
                \/ ~from_utf8_ok(path)
        THEN Returns("file_write", 0, TRUE)
        ELSE IF ~alloc_ok(data_len) THEN Panics("file_write")
        ELSE IF ~read_ok(data_ptr, data_len)
        THEN Returns("file_write", 0, TRUE)
        ELSE /\ files' = write_file_effect(path, data_buf, caller_pid)
             /\ last' = HostResult("file_write",
                                   IF write_file_ok(path) THEN 0 ELSE 1, FALSE)
             /\ UNCHANGED <<store, next_cap_id, agents, reg_next_id, endpoints,
                            network, gmem, issued, revoked>>

file_write(caller_pid, path_ptr, path_len, data_ptr, data_len) ==
    LET caps == agent_capabilities(caller_pid)
        path == read_bytes(path_ptr, path_len)
        data_buf == read_bytes(data_ptr, data_len)
    IN  IF gmem.exported /\ ~alloc_ok(path_len) THEN Panics("file_write")
        ELSE IF ~gmem.exported \/ ~read_ok(path_ptr, path_len)
                \/ ~from_utf8_ok(path)
        THEN Returns("file_write", 0, TRUE)
        ELSE IF ~can_write_file(caps, path)
        THEN Returns("file_write", 2, FALSE)
        ELSE IF ~alloc_ok(data_len) THEN Panics("file_write")
        ELSE IF ~read_ok(data_ptr, data_len)
        THEN Returns("file_write", 0, TRUE)
        ELSE /\ files' = write_file_effect(path, data_buf, caller_pid)
             /\ last' = HostResult("file_write",
                                   IF write_file_ok(path) THEN 0 ELSE 1, FALSE)
             /\ UNCHANGED <<store, next_cap_id, agents, reg_next_id, endpoints,
                            network, gmem, issued, revoked>>

file_list(caller_pid, prefix_ptr, prefix_len, out_ptr, out_len_ptr) ==
    LET caps == agent_capabilities(caller_pid)
        prefix == read_bytes(prefix_ptr, prefix_len)
    IN  IF gmem.exported /\ ~alloc_ok(prefix_len) THEN Panics("file_list")
        ELSE IF ~gmem.exported \/ ~read_ok(prefix_ptr, prefix_len)
                \/ ~from_utf8_ok(prefix)
        THEN Returns("file_list", 0, TRUE)
        ELSE IF ~can_read_file(caps, prefix)
        THEN Returns("file_list", 2, FALSE)
        ELSE write_out("file_list", out_ptr, out_len_ptr,
                       join(list_files_prefix(prefix)))

\* An auto-grant policy whose cap_type 2 grants the right to send to pid 2.
granted_capability_send(cap_type, detail_str) ==
    CASE cap_type = 0 -> Network
      [] cap_type = 1 ->
           FileSystem(IF detail_str = <<>> THEN <<47, 97, 103, 101, 110, 116, 47>>
                      ELSE detail_str, TRUE, TRUE)
      [] cap_type = 2 -> Process(2, TRUE, FALSE)

\* An auto-grant policy without the "/agent/" default for an empty detail.
granted_capability_no_default(cap_type, detail_str) ==
    CASE cap_type = 0 -> Network
      [] cap_type = 1 -> FileSystem(detail_str, TRUE, TRUE)
      [] cap_type = 2 -> Spawn(5)

\* The capability the auto-grant policy creates for a cap_type.
granted_capability(cap_type, detail_str) ==
    CASE cap_type = 0 -> Network
      [] cap_type = 1 ->
           FileSystem(IF detail_str = <<>> THEN <<47, 97, 103, 101, 110, 116, 47>>
                      ELSE detail_str, TRUE, TRUE)
      [] cap_type = 2 -> Spawn(5)

request_capability(caller_pid, cap_type, detail_ptr, detail_len) ==
    LET detail_buf == IF detail_len > 0 THEN read_bytes(detail_ptr, detail_len)
                      ELSE <<>>
        detail_str == IF from_utf8_ok(detail_buf) THEN detail_buf ELSE <<>>
        ipc_msg == CAP_REQUEST \o decimal(caller_pid) \o <<58>> \o decimal(cap_type)
                   \o <<58>> \o detail_str
        cap_id == next_cap_id
    IN  IF gmem.exported /\ detail_len > 0 /\ ~alloc_ok(detail_len)
        THEN Panics("request_capability")
        ELSE IF ~gmem.exported
                \/ (detail_len > 0 /\ ~read_ok(detail_ptr, detail_len))
        THEN Returns("request_capability", 0, TRUE)
        ELSE /\ endpoints' = send_effect(caller_pid, KERNEL_SUPERVISOR_PID,
                                         ipc_msg, <<>>)
             /\ IF cap_type \in {0, 1, 2}
                THEN /\ next_cap_id <= MaxCapId
                     /\ Len(agent_capabilities(caller_pid)) < MaxBagLen
                     /\ next_cap_id' = next_cap_id + 1
                     /\ store' = map_insert(store, cap_id,
                                    granted_capability(cap_type, detail_str))
                     /\ issued' = Append(issued, cap_id)
                     /\ agents' = push_capability(caller_pid, cap_id)
                     /\ last' = HostResult("request_capability",
                                           0, FALSE)
                ELSE /\ UNCHANGED <<store, next_cap_id, issued, agents>>
                     /\ last' = HostResult("request_capability",
                                           1, FALSE)
             /\ UNCHANGED <<reg_next_id, files, network, gmem, revoked>>

----------------------------------------------------------------------------
(* Specification of the capability store on its own *)

Init ==
    /\ store = EmptyMap
    /\ next_cap_id = 1
    /\ agents = EmptyMap
    /\ reg_next_id = 1
    /\ endpoints = EmptyMap
    /\ files = <<>>
    /\ network = NoNetwork
    /\ gmem = [exported |-> FALSE, bytes |-> <<>>]
    /\ issued = <<>>
    /\ revoked = {}
    /\ sending = None
    /\ pc = None
    /\ last = [op |-> "boot", arg |-> 0, ret |-> 0]

Next ==
    \/ \E cap \in StoreCaps : create_capability(cap)
          /\ UNCHANGED <<sending, pc>>
    \/ \E cap_id \in CapIds : revoke_capability(cap_id)
          /\ UNCHANGED <<sending, pc>>
    \/ \E cap_id \in CapIds : ValidateCapability(cap_id)
          /\ UNCHANGED <<sending, pc>>

Spec == Init /\ [][Next]_vars

----------------------------------------------------------------------------
(* Specification of the capability store with agents that hold bags *)

\* The ids create_capability has returned so far. The callers of spawn_agent
\* and grant_capability_to_agent (kernel_main, request_capability) pass ids
\* they got from create_capability.
IssuedIds == 1..(next_cap_id - 1)
IssuedBags(bags) == {b \in bags : \A i \in 1..Len(b) : b[i] \in IssuedIds}

\* One agent is spawned, with any bag: the predicates look at one bag at a
\* time.
NextBags ==
    \/ \E cap \in StoreCaps : create_capability(cap)
          /\ UNCHANGED <<sending, pc>>
    \/ \E cap_id \in CapIds : revoke_capability(cap_id)
          /\ UNCHANGED <<sending, pc>>
    \/ \E capabilities \in IssuedBags(Bags) :
          agents = EmptyMap /\ spawn_agent("agent", capabilities)
          /\ UNCHANGED <<sending, pc>>

SpecBags == Init /\ [][NextBags]_vars

----------------------------------------------------------------------------
(* Specification of the kernel API: store, registry and IPC together *)

\* Capabilities, bags and payloads the kernel specification draws from.
KernelCaps == {Network}
SmallBags == {b \in Bags : Len(b) <= 1}
Payloads == {<<72>>}

\* The recipient's queue is shorter than the explored bound.
QueueRoom(recipient) ==
    recipient \in DOMAIN endpoints => Len(endpoints[recipient].messages) < MaxQueue

NextKernel ==
    \/ \E cap \in KernelCaps : create_capability(cap)
          /\ UNCHANGED <<sending, pc>>
    \/ \E cap_id \in CapIds : revoke_capability(cap_id)
          /\ UNCHANGED <<sending, pc>>
    \/ \E name \in Names, caps \in IssuedBags(SmallBags) : spawn_agent(name, caps)
          /\ UNCHANGED <<sending, pc>>
    \/ \E a \in AgentIds, cap_id \in IssuedIds : grant_capability_to_agent(a, cap_id)
          /\ UNCHANGED <<sending, pc>>
    \/ \E a \in AgentIds : terminate_agent(a)
          /\ UNCHANGED <<sending, pc>>
    \/ \E p \in AgentIds : create_endpoint(p)
          /\ UNCHANGED <<sending, pc>>
    \/ \E sender \in AgentIds, recipient \in AgentIds, data \in Payloads,
          caps \in SmallBags :
          QueueRoom(recipient) /\ send_message(sender, recipient, data, caps)
          /\ UNCHANGED <<sending, pc>>
    \/ \E p \in AgentIds : receive_message(p)
          /\ UNCHANGED <<sending, pc>>

SpecKernel == Init /\ [][NextKernel]_vars

----------------------------------------------------------------------------
(* Specification of the host syscalls issued by guests on a booted kernel *)

\* Frames the network stack sends and files the VFS holds at most in the
\* explored runs.
MaxFrames == 1
MaxFiles == 2

\* The capability agent 1 was booted with.
BootCaps ==
    { Process(2, TRUE, FALSE), Network,
      FileSystem(<<47>>, TRUE, TRUE), FileSystem(<<47, 97>>, TRUE, FALSE),
      FileSystem(<<>>, TRUE, FALSE) }

\* A network stack after net::init
NetworkUp == [up |-> TRUE, sockets |-> {}, frames |-> 0]

\* Guest memory: "/a", an 0xFF byte, then zeros up to MemSize.
GuestImage == [i \in 1..MemSize |-> IF i = 1 THEN 47 ELSE IF i = 2 THEN 97
                                    ELSE IF i = 3 THEN 255 ELSE 0]

\* After boot: agent 1 holds one capability, agent 2 none; the supervisor and
\* agent 2 have endpoints; the initramfs mounted the read-only file "/a".
InitHost ==
    /\ \E cap \in BootCaps : store = map_insert(EmptyMap, 1, cap)
    /\ next_cap_id = 2
    /\ agents = map_insert(map_insert(EmptyMap, 1,
                    [id |-> 1, name |-> "agent", capabilities |-> <<1>>,
                     state |-> "Running"]), 2,
                    [id |-> 2, name |-> "agent", capabilities |-> <<>>,
                     state |-> "Running"])
    /\ reg_next_id = 3
    /\ endpoints = map_insert(map_insert(EmptyMap, KERNEL_SUPERVISOR_PID,
                       [messages |-> <<>>, max_messages |-> max_messages]), 2,
                       [messages |-> <<>>, max_messages |-> max_messages])
    /\ files = <<VirtualFile(<<47, 97>>, <<72>>, 0, TRUE)>>
    /\ network \in {NoNetwork, NetworkUp}
    /\ gmem \in {[exported |-> TRUE, bytes |-> GuestImage],
                 [exported |-> FALSE, bytes |-> <<>>]}
    /\ issued = <<1>>
    /\ revoked = {}
    /\ sending = None
    /\ pc = None
    /\ last = [op |-> "boot", arg |-> 0, ret |-> 0]

\* (ptr, len) pairs a guest passes: the empty slice, "/", "/a", the 0xFF
\* byte, a slice that ends outside the memory and one larger than the heap.
Slices == {<<0, 0>>, <<0, 1>>, <<0, 2>>, <<2, 1>>, <<MemSize, 1>>,
           <<0, HeapBytes + 1>>}
\* Payload slices: "/" and one that ends outside the memory.
Payload == {<<0, 1>>, <<MemSize, 1>>, <<0, HeapBytes + 1>>}
\* Detail slices: "/", the 0xFF byte and one that ends outside the memory.
Details == {<<0, 1>>, <<2, 1>>, <<MemSize, 1>>, <<0, HeapBytes + 1>>}
\* Output pointers: one with room for four bytes, one with room for one.
OutPtrs == {MemSize - 4, MemSize - 1}
\* (out_ptr, out_len_ptr) pairs: both writes fit, the data may not fit, the
\* length does not fit.
OutPairs == {<<MemSize - 4, MemSize - 4>>, <<MemSize - 1, MemSize - 4>>,
             <<MemSize - 4, MemSize - 1>>}
Callers == AgentIds
Answers == {None, [tag |-> "Some", ip |-> <<10, 0, 2, 15>>]}

\* A guest makes a host call or the kernel revokes a capability, until the
\* kernel panics.
NextHost ==
    \/ ~Halted /\ \E a \in Callers, s \in Payload : debug_log(a, s[1], s[2])
          /\ UNCHANGED <<sending, pc>>
    \/ ~Halted /\ \E a \in Callers, t \in Pids, s \in Payload :
              QueueRoom(t) /\ send_ipc(a, t, s[1], s[2])
          /\ UNCHANGED <<sending, pc>>
    \/ ~Halted /\ \E a \in Callers, ip_ptr \in OutPtrs, port \in {0, 80}, s \in Payload :
              network.frames < MaxFrames /\ tcp_request(a, ip_ptr, port, s[1], s[2])
          /\ UNCHANGED <<sending, pc>>
    \/ ~Halted /\ \E a \in Callers, s \in Details, out \in OutPtrs, answer \in Answers :
              network.frames < MaxFrames /\ resolve_dns(a, s[1], s[2], out, answer)
          /\ UNCHANGED <<sending, pc>>
    \/ ~Halted /\ \E a \in Callers, s \in Slices, o \in OutPairs :
              file_read(a, s[1], s[2], o[1], o[2])
          /\ UNCHANGED <<sending, pc>>
    \/ ~Halted /\ \E a \in Callers, s \in Slices, d \in Payload :
              Len(files) < MaxFiles /\ file_write(a, s[1], s[2], d[1], d[2])
          /\ UNCHANGED <<sending, pc>>
    \/ ~Halted /\ \E a \in Callers, s \in Details, o \in OutPairs :
              file_list(a, s[1], s[2], o[1], o[2])
          /\ UNCHANGED <<sending, pc>>
    \/ ~Halted /\ \E a \in Callers, cap_type \in 0..3, s \in Details :
              QueueRoom(KERNEL_SUPERVISOR_PID)
              /\ request_capability(a, cap_type, s[1], s[2])
          /\ UNCHANGED <<sending, pc>>
    \/ ~Halted /\ \E cap_id \in CapIds : revoke_capability(cap_id)
          /\ UNCHANGED <<sending, pc>>

SpecHost == InitHost /\ [][NextHost]_vars

----------------------------------------------------------------------------
(* Specification of the file syscalls on a booted kernel *)

\* A guest makes a file call or asks for a capability, or the kernel revokes
\* a capability, until the kernel panics.
NextFiles ==
    \/ ~Halted /\ \E a \in Callers, s \in Slices, o \in OutPairs :
              file_read(a, s[1], s[2], o[1], o[2])
          /\ UNCHANGED <<sending, pc>>
    \/ ~Halted /\ \E a \in Callers, s \in Slices, d \in Payload :
              Len(files) < MaxFiles /\ file_write(a, s[1], s[2], d[1], d[2])
          /\ UNCHANGED <<sending, pc>>
    \/ ~Halted /\ \E a \in Callers, s \in Details, o \in OutPairs :
              file_list(a, s[1], s[2], o[1], o[2])
          /\ UNCHANGED <<sending, pc>>
    \/ ~Halted /\ \E a \in Callers, cap_type \in 0..3, s \in Details :
              QueueRoom(KERNEL_SUPERVISOR_PID)
              /\ request_capability(a, cap_type, s[1], s[2])
          /\ UNCHANGED <<sending, pc>>
    \/ ~Halted /\ \E cap_id \in CapIds : revoke_capability(cap_id)
          /\ UNCHANGED <<sending, pc>>

SpecFiles == InitHost /\ [][NextFiles]_vars

----------------------------------------------------------------------------
(* Specification of the agent registry: spawn, grant, terminate, and the
   syscall that grants (request_capability), next to the capability store *)

\* A fresh kernel in which a guest module has been instantiated.
InitRegistry ==
    /\ store = EmptyMap
    /\ next_cap_id = 1
    /\ agents = EmptyMap
    /\ reg_next_id = 1
    /\ endpoints = EmptyMap
    /\ files = <<>>
    /\ network = NoNetwork
    /\ gmem = [exported |-> TRUE, bytes |-> GuestImage]
    /\ issued = <<>>
    /\ revoked = {}
    /\ sending = None
    /\ pc = None
    /\ last = [op |-> "boot", arg |-> 0, ret |-> 0]

\* Agent ids the kernel is asked about: the reserved 0, the spawned ones and
\* one that is never spawned.
AskedIds == 0..(MaxAgents + 1)

NextRegistry ==
    \/ \E cap \in KernelCaps : create_capability(cap)
          /\ UNCHANGED <<sending, pc>>
    \/ \E cap_id \in CapIds : revoke_capability(cap_id)
          /\ UNCHANGED <<sending, pc>>
    \/ \E name \in Names, caps \in IssuedBags(SmallBags) : spawn_agent(name, caps)
          /\ UNCHANGED <<sending, pc>>
    \/ \E a \in AskedIds, cap_id \in IssuedIds : grant_capability_to_agent(a, cap_id)
          /\ UNCHANGED <<sending, pc>>
    \/ \E a \in AskedIds : terminate_agent(a)
          /\ UNCHANGED <<sending, pc>>
    \/ \E a \in DOMAIN agents, cap_type \in {0, 3} :
          request_capability(a, cap_type, 0, 1)
          /\ UNCHANGED <<sending, pc>>

SpecRegistry == InitRegistry /\ [][NextRegistry]_vars

----------------------------------------------------------------------------
(* Specification of the IPC queues filled to their capacity *)

\* Two processes create endpoints, send one payload without capabilities and
\* receive; nothing bounds the queues but max_messages.
NextQueue ==
    \/ \E p \in AgentIds : create_endpoint(p)
          /\ UNCHANGED <<sending, pc>>
    \/ \E recipient \in AgentIds, data \in Payloads :
          send_message(1, recipient, data, <<>>)
          /\ UNCHANGED <<sending, pc>>
    \/ \E p \in AgentIds : receive_message(p)
          /\ UNCHANGED <<sending, pc>>

SpecQueue == Init /\ [][NextQueue]_vars

----------------------------------------------------------------------------
(* Specification of IPC delivery: queues that hold several different messages *)

\* Longest queue the delivery specification explores.
MaxFifo == 2

FifoRoom(recipient) ==
    recipient \in DOMAIN endpoints => Len(endpoints[recipient].messages) < MaxFifo

\* Payloads of the delivery specification: the empty one and "Hi".
FifoPayloads == {<<>>, <<72, 105>>}
\* The processes that get endpoints and send.
FifoPids == Pids \ {KERNEL_SUPERVISOR_PID}

\* Processes 1 and 2 have endpoints created, send to each other and to the
\* endpoint-less process 0, and receive.
NextFifo ==
    \/ \E p \in FifoPids : create_endpoint(p)
          /\ UNCHANGED <<sending, pc>>
    \/ \E sender \in FifoPids, recipient \in Pids, data \in FifoPayloads :
          FifoRoom(recipient) /\ send_message(sender, recipient, data, <<>>)
          /\ UNCHANGED <<sending, pc>>
    \/ \E p \in Pids : receive_message(p)
          /\ UNCHANGED <<sending, pc>>

SpecFifo == Init /\ [][NextFifo]_vars

----------------------------------------------------------------------------
(* Specification of send_message's checks: capability lists that resolve in
   part, missing endpoints and full queues *)

\* An id create_capability does not get to within the explored bound.
NeverIssued == MaxCapId + 1
\* Capability lists passed to send_message: none, and lists in which one id
\* never resolves, before or after an id that may.
SendLists == {<<>>, <<1, NeverIssued>>, <<NeverIssued, 1>>}

NextSend ==
    \/ \E cap \in KernelCaps : create_capability(cap)
          /\ UNCHANGED <<sending, pc>>
    \/ \E cap_id \in CapIds : revoke_capability(cap_id)
          /\ UNCHANGED <<sending, pc>>
    \/ \E p \in AgentIds : create_endpoint(p)
          /\ UNCHANGED <<sending, pc>>
    \/ \E recipient \in Pids, data \in Payloads, caps \in SendLists :
          send_message(1, recipient, data, caps)
          /\ UNCHANGED <<sending, pc>>
    \/ \E p \in AgentIds : receive_message(p)
          /\ UNCHANGED <<sending, pc>>

SpecSend == Init /\ [][NextSend]_vars

----------------------------------------------------------------------------
(* Specification of send_message running while another thread revokes: the
   steps of send_message are the stretches between its lock acquisitions *)

\* A send_message call in progress: its arguments and the index of the next
\* capability the validation loop looks at.
SendCall(sender, recipient, data, capabilities, i) ==
    [tag |-> "Call", sender |-> sender, recipient |-> recipient, data |-> data,
     capabilities |-> capabilities, i |-> i]

\* send_message is entered.
SendBegin(sender, recipient, data, capabilities) ==
    /\ sending = None
    /\ sending' = SendCall(sender, recipient, data, capabilities, 1)
    /\ UNCHANGED <<store, next_cap_id, agents, reg_next_id, endpoints, files,
                   network, gmem, issued, revoked, last>>

\* One turn of the validation loop: validate_capability takes and releases
\* the store lock; an id that does not resolve ends the call.
SendValidate ==
    /\ sending # None
    /\ sending.i <= Len(sending.capabilities)
    /\ IF validate_capability(sending.capabilities[sending.i]) = None
       THEN /\ sending' = None
            /\ last' = [op |-> "send_message",
                        arg |-> <<sending.sender, sending.recipient,
                                  sending.data, sending.capabilities>>,
                        ret |-> "Invalid capability"]
       ELSE /\ sending' = [sending EXCEPT !.i = @ + 1]
            /\ last' = last
    /\ UNCHANGED <<store, next_cap_id, agents, reg_next_id, endpoints, files,
                   network, gmem, issued, revoked>>

\* After the loop: under the IPC lock, the endpoint lookup, the room test and
\* the push.
SendEnqueue ==
    /\ sending # None
    /\ sending.i > Len(sending.capabilities)
    /\ \E result \in {send_result_unvalidated(sending.recipient,
                                              sending.capabilities)} :
          /\ endpoints' =
                IF result = "Ok"
                THEN [endpoints EXCEPT ![sending.recipient].messages =
                         Append(@, Message(sending.sender, sending.data,
                                           sending.capabilities))]
                ELSE endpoints
          /\ last' = [op |-> "send_message",
                      arg |-> <<sending.sender, sending.recipient,
                                sending.data, sending.capabilities>>,
                      ret |-> result]
    /\ sending' = None
    /\ UNCHANGED <<store, next_cap_id, agents, reg_next_id, files, network,
                   gmem, issued, revoked>>

NextRace ==
    \/ \E cap \in KernelCaps : create_capability(cap)
          /\ UNCHANGED <<sending, pc>>
    \/ \E cap_id \in CapIds : revoke_capability(cap_id)
          /\ UNCHANGED <<sending, pc>>
    \/ \E p \in AgentIds : create_endpoint(p)
          /\ UNCHANGED <<sending, pc>>
    \/ \E sender \in AgentIds, recipient \in AgentIds, data \in Payloads,
          caps \in SmallBags :
          QueueRoom(recipient) /\ SendBegin(sender, recipient, data, caps)
          /\ UNCHANGED pc
    \/ SendValidate /\ UNCHANGED pc
    \/ SendEnqueue /\ UNCHANGED pc
    \/ \E p \in AgentIds : receive_message(p)
          /\ UNCHANGED <<sending, pc>>

SpecRace == Init /\ [][NextRace]_vars

----------------------------------------------------------------------------
(* Specification of the VFS API: register_file, write_file, delete_file *)

\* File names "/a" and "/b", contents "H" and "I", owners 1 and 2.
VfsNames == {<<47, 97>>, <<47, 98>>}
VfsData == {<<72>>, <<73>>}
VfsOwners == {1, 2}

NextVfs ==
    \/ \E name \in VfsNames, data \in VfsData :
          Len(files) < MaxFiles /\ register_file(name, data)
          /\ UNCHANGED <<sending, pc>>
    \/ \E name \in VfsNames, data \in VfsData, owner_pid \in VfsOwners :
          (find_file(name) = 0 => Len(files) < MaxFiles)
          /\ write_file(name, data, owner_pid)
          /\ UNCHANGED <<sending, pc>>
    \/ \E name \in VfsNames : delete_file(name)
          /\ UNCHANGED <<sending, pc>>

SpecVfs == Init /\ [][NextVfs]_vars

----------------------------------------------------------------------------
(* Specification of the VFS in boot order: the initramfs loader registers the
   system files, then agents write and delete *)

\* Only register_file calls have happened so far.
Mounting == last.op \in {"boot", "register_file"}

NextVfsBoot ==
    \/ \E name \in VfsNames, data \in VfsData :
          Mounting /\ Len(files) < MaxFiles /\ register_file(name, data)
          /\ UNCHANGED <<sending, pc>>
    \/ \E name \in VfsNames, data \in VfsData, owner_pid \in VfsOwners :
          (find_file(name) = 0 => Len(files) < MaxFiles)
          /\ write_file(name, data, owner_pid)
          /\ UNCHANGED <<sending, pc>>
    \/ \E name \in VfsNames : delete_file(name)
          /\ UNCHANGED <<sending, pc>>

SpecVfsBoot == Init /\ [][NextVfsBoot]_vars

----------------------------------------------------------------------------
(* Specification of escalation and IPC against absent and full endpoints *)

\* The capability agent 1 was booted with: send rights to agent 2 or to the
\* supervisor.
EscalationCaps == {Process(2, TRUE, FALSE), Process(KERNEL_SUPERVISOR_PID, TRUE, FALSE)}

\* A queue one message short of max_messages.
NearlyFull == [i \in 1..(max_messages - 1) |-> Message(1, <<47>>, <<>>)]

\* Endpoint tables after boot: the supervisor and agent 2 each have no
\* endpoint, an empty one or a nearly full one.
EscalationEndpoints ==
    LET queues == {<<>>, NearlyFull}
        one(p) == {EmptyMap} \cup
                  {map_insert(EmptyMap, p, [messages |-> q, max_messages |-> max_messages]) :
                       q \in queues}
    IN  {[p \in DOMAIN e0 \cup DOMAIN e2 |-> IF p \in DOMAIN e0 THEN e0[p] ELSE e2[p]] :
             e0 \in one(KERNEL_SUPERVISOR_PID), e2 \in one(2)}

InitEscalation ==
    /\ \E cap \in EscalationCaps : store = map_insert(EmptyMap, 1, cap)
    /\ next_cap_id = 2
    /\ agents = map_insert(map_insert(EmptyMap, 1,
                    [id |-> 1, name |-> "agent", capabilities |-> <<1>>,
                     state |-> "Running"]), 2,
                    [id |-> 2, name |-> "agent", capabilities |-> <<>>,
                     state |-> "Running"])
    /\ reg_next_id = 3
    /\ endpoints \in EscalationEndpoints
    /\ files = <<VirtualFile(<<47, 97>>, <<72>>, 0, TRUE)>>
    /\ network = NoNetwork
    /\ gmem \in {[exported |-> TRUE, bytes |-> GuestImage],
                 [exported |-> FALSE, bytes |-> <<>>]}
    /\ issued = <<1>>
    /\ revoked = {}
    /\ sending = None
    /\ pc = None
    /\ last = [op |-> "boot", arg |-> 0, ret |-> 0]

\* Detail slices: the empty one, "/", the 0xFF byte and one that ends outside
\* the memory.
EscalationDetails == {<<0, 0>>, <<0, 1>>, <<2, 1>>, <<MemSize, 1>>}

\* The recipient's queue is short or about to reach max_messages.
EscalationRoom(recipient) ==
    recipient \in DOMAIN endpoints =>
        \/ Len(endpoints[recipient].messages) < MaxQueue
        \/ Len(endpoints[recipient].messages) >= max_messages - 1

\* A write that would add a file finds fewer than MaxFiles files.
EscalationFileRoom(path_ptr, path_len) ==
    (read_ok(path_ptr, path_len) /\ find_file(read_bytes(path_ptr, path_len)) = 0)
        => Len(files) < MaxFiles

\* A guest sends, asks for a capability, opens a connection or writes a file,
\* until the kernel panics.
NextEscalation ==
    \/ ~Halted /\ \E a \in Callers, t \in Pids, s \in Payload :
              EscalationRoom(t) /\ send_ipc(a, t, s[1], s[2])
          /\ UNCHANGED <<sending, pc>>
    \/ ~Halted /\ \E a \in Callers, cap_type \in 0..3, s \in EscalationDetails :
              EscalationRoom(KERNEL_SUPERVISOR_PID)
              /\ request_capability(a, cap_type, s[1], s[2])
          /\ UNCHANGED <<sending, pc>>
    \/ ~Halted /\ \E a \in Callers, s \in Payload :
              tcp_request(a, MemSize - 4, 80, s[1], s[2])
          /\ UNCHANGED <<sending, pc>>
    \/ ~Halted /\ \E a \in Callers, s \in Slices, d \in Payload :
              EscalationFileRoom(s[1], s[2]) /\ file_write(a, s[1], s[2], d[1], d[2])
          /\ UNCHANGED <<sending, pc>>

SpecEscalation == InitEscalation /\ [][NextEscalation]_vars

----------------------------------------------------------------------------
(* Specification of the kernel's spin locks: what each operation takes *)

\* Threads of control that may be inside the kernel at once.
LockThreads == 2
Threads == 1..LockThreads

\* The spin::Mutex statics.
Locks == {"CAPABILITY_STORE", "NEXT_CAP_ID", "REGISTRY", "IPC_ENDPOINTS", "VFS",
          "NETWORK"}

Acq(l) == <<"lock", l>>
Rel(l) == <<"drop", l>>

\* A send_message that validates the capabilities under the IPC lock.
locks_send_message_under_ipc(n) ==
    <<Acq("IPC_ENDPOINTS")>>
    \o (IF n = 0 THEN <<>> ELSE <<Acq("CAPABILITY_STORE"), Rel("CAPABILITY_STORE")>>)
    \o <<Rel("IPC_ENDPOINTS")>>

\* The lock and drop events of each operation, in program order.
locks_create_capability ==
    <<Acq("CAPABILITY_STORE"), Acq("NEXT_CAP_ID"), Rel("NEXT_CAP_ID"),
      Rel("CAPABILITY_STORE")>>
locks_validate_capability == <<Acq("CAPABILITY_STORE"), Rel("CAPABILITY_STORE")>>
locks_revoke_capability == <<Acq("CAPABILITY_STORE"), Rel("CAPABILITY_STORE")>>
locks_find_capability == <<Acq("CAPABILITY_STORE"), Rel("CAPABILITY_STORE")>>
locks_spawn_agent == <<Acq("REGISTRY"), Rel("REGISTRY")>>
locks_agent_capabilities == <<Acq("REGISTRY"), Rel("REGISTRY")>>
locks_grant_capability_to_agent == <<Acq("REGISTRY"), Rel("REGISTRY")>>
locks_terminate_agent == <<Acq("REGISTRY"), Rel("REGISTRY")>>
locks_create_endpoint == <<Acq("IPC_ENDPOINTS"), Rel("IPC_ENDPOINTS")>>
locks_receive_message == <<Acq("IPC_ENDPOINTS"), Rel("IPC_ENDPOINTS")>>
\* send_message with n capabilities (n is 0 or 1 here).
locks_send_message(n) ==
    (IF n = 0 THEN <<>> ELSE locks_validate_capability)
    \o <<Acq("IPC_ENDPOINTS"), Rel("IPC_ENDPOINTS")>>
\* register_file, open_file, list_files_prefix, write_file, delete_file
locks_vfs == <<Acq("VFS"), Rel("VFS")>>
\* dns::resolve, and the NETWORK.lock() of tcp_request
locks_network == <<Acq("NETWORK"), Rel("NETWORK")>>
\* The host calls: the bag, the predicate, then the collaborator.
locks_send_ipc ==
    locks_agent_capabilities \o locks_find_capability \o locks_send_message(0)
locks_tcp_request == locks_agent_capabilities \o locks_find_capability \o locks_network
locks_resolve_dns == locks_agent_capabilities \o locks_find_capability \o locks_network
locks_file_call == locks_agent_capabilities \o locks_find_capability \o locks_vfs
locks_request_capability ==
    locks_send_message(0) \o locks_create_capability
    \o locks_grant_capability_to_agent

LockPrograms ==
    [create_capability |-> locks_create_capability,
     validate_capability |-> locks_validate_capability,
     revoke_capability |-> locks_revoke_capability,
     find_capability |-> locks_find_capability,
     spawn_agent |-> locks_spawn_agent,
     agent_capabilities |-> locks_agent_capabilities,
     grant_capability_to_agent |-> locks_grant_capability_to_agent,
     terminate_agent |-> locks_terminate_agent,
     create_endpoint |-> locks_create_endpoint,
     receive_message |-> locks_receive_message,
     send_message |-> locks_send_message(1),
     vfs |-> locks_vfs,
     send_ipc |-> locks_send_ipc,
     tcp_request |-> locks_tcp_request,
     resolve_dns |-> locks_resolve_dns,
     file_call |-> locks_file_call,
     request_capability |-> locks_request_capability]

\* A thread outside every operation.
Idle == [op |-> "idle", events |-> <<>>, i |-> 1]

\* The locks thread t holds: taken and not yet dropped.
Held(t) ==
    {l \in Locks :
        \E j \in 1..(pc[t].i - 1) :
            /\ pc[t].events[j] = Acq(l)
            /\ \A k \in (j + 1)..(pc[t].i - 1) : pc[t].events[k] # Rel(l)}

\* The thread's next event, if it is inside an operation.
Busy(t) == pc[t].i <= Len(pc[t].events)
NextEvent(t) == pc[t].events[pc[t].i]

InitLocks ==
    /\ store = EmptyMap
    /\ next_cap_id = 1
    /\ agents = EmptyMap
    /\ reg_next_id = 1
    /\ endpoints = EmptyMap
    /\ files = <<>>
    /\ network = NoNetwork
    /\ gmem = [exported |-> FALSE, bytes |-> <<>>]
    /\ issued = <<>>
    /\ revoked = {}
    /\ sending = None
    /\ pc = [t \in Threads |-> Idle]
    /\ last = [op |-> "boot", arg |-> 0, ret |-> 0]

LockFrame ==
    UNCHANGED <<store, next_cap_id, agents, reg_next_id, endpoints, files, network,
                gmem, issued, revoked, sending>>

\* An idle thread enters an operation.
LockBegin(t, op) ==
    /\ ~Busy(t)
    /\ pc' = [pc EXCEPT ![t] = [op |-> op, events |-> LockPrograms[op], i |-> 1]]
    /\ last' = [op |-> op, arg |-> t, ret |-> "entered"]
    /\ LockFrame

\* Mutex::lock: the thread spins until no thread holds the lock.
LockAcquire(t) ==
    /\ Busy(t)
    /\ NextEvent(t)[1] = "lock"
    /\ \A u \in Threads : NextEvent(t)[2] \notin Held(u)
    /\ pc' = [pc EXCEPT ![t].i = @ + 1]
    /\ last' = last
    /\ LockFrame

\* The guard is dropped; after its last event the thread leaves the operation.
LockRelease(t) ==
    /\ Busy(t)
    /\ NextEvent(t)[1] = "drop"
    /\ pc' = [pc EXCEPT ![t].i = @ + 1]
    /\ last' = IF pc[t].i = Len(pc[t].events)
               THEN [op |-> pc[t].op, arg |-> t, ret |-> "returned"]
               ELSE last
    /\ LockFrame

NextLocks ==
    \/ \E t \in Threads, op \in DOMAIN LockPrograms : LockBegin(t, op)
    \/ \E t \in Threads : LockAcquire(t)
    \/ \E t \in Threads : LockRelease(t)

SpecLocks == InitLocks /\ [][NextLocks]_vars

----------------------------------------------------------------------------
(* Specification of a gated host call stage by stage: bag, predicate, action *)

\* The capability agent 1 was booted with.
AdapterCaps == {Process(2, TRUE, FALSE), Network}

InitAdapter ==
    /\ \E cap \in AdapterCaps : store = map_insert(EmptyMap, 1, cap)
    /\ next_cap_id = 2
    /\ agents = map_insert(map_insert(EmptyMap, 1,
                    [id |-> 1, name |-> "agent", capabilities |-> <<1>>,
                     state |-> "Running"]), 2,
                    [id |-> 2, name |-> "agent", capabilities |-> <<>>,
                     state |-> "Running"])
    /\ reg_next_id = 3
    /\ endpoints = map_insert(map_insert(EmptyMap, KERNEL_SUPERVISOR_PID,
                       [messages |-> <<>>, max_messages |-> max_messages]), 2,
                       [messages |-> <<>>, max_messages |-> max_messages])
    /\ files = <<>>
    /\ network \in {NoNetwork, NetworkUp}
    /\ gmem = [exported |-> TRUE, bytes |-> GuestImage]
    /\ issued = <<1>>
    /\ revoked = {}
    /\ sending = None
    /\ pc = None
    /\ last = [op |-> "boot", arg |-> 0, ret |-> 0]

\* A host call in progress: its caller, its target pid (send_ipc), the bag
\* it read and the stage it has reached.
AdapterCall(op, caller, target, caps, stage) ==
    [tag |-> "Call", op |-> op, caller |-> caller, target |-> target,
     caps |-> caps, stage |-> stage]

\* A scheduler that lets kernel code run while a host call is in progress.
HostCallFree_preempting == TRUE

\* A host call blocks the guest and runs to its return on the one kernel
\* stack: other code runs only when no host call is in progress.
HostCallFree == pc = None

AdapterFrame ==
    UNCHANGED <<store, next_cap_id, agents, reg_next_id, files, gmem, issued,
                revoked, sending>>

\* The guest calls send_ipc or tcp_request; the inputs are copied.
AdapterEnter(op, caller, target) ==
    /\ pc = None
    /\ pc' = AdapterCall(op, caller, target, <<>>, "entered")
    /\ UNCHANGED <<endpoints, network, last>>
    /\ AdapterFrame

\* agent_capabilities(AgentId(pid)): the bag is cloned.
AdapterSnapshot ==
    /\ pc # None
    /\ pc.stage = "entered"
    /\ pc' = [pc EXCEPT !.caps = agent_capabilities(pc.caller), !.stage = "bag read"]
    /\ UNCHANGED <<endpoints, network, last>>
    /\ AdapterFrame

\* The predicate the adapter evaluates on the cloned bag.
AdapterPredicate(op, caps, target) ==
    IF op = "send_ipc" THEN can_send_to(caps, target) ELSE can_access_network(caps)

\* can_send_to / can_access_network: denied calls return 2.
AdapterCheck ==
    /\ pc # None
    /\ pc.stage = "bag read"
    /\ IF AdapterPredicate(pc.op, pc.caps, pc.target)
       THEN /\ pc' = [pc EXCEPT !.stage = "authorized"]
            /\ last' = last
       ELSE /\ pc' = None
            /\ last' = HostResult(pc.op, 2, FALSE)
    /\ UNCHANGED <<endpoints, network>>
    /\ AdapterFrame

\* The collaborator action: send_message, or connect and poll.
AdapterAct ==
    /\ pc # None
    /\ pc.stage = "authorized"
    /\ IF pc.op = "send_ipc"
       THEN /\ endpoints' = send_effect(pc.caller, pc.target, <<47>>, <<>>)
            /\ last' = HostResult("send_ipc",
                  IF send_result(pc.target, <<>>) = "Ok" THEN 0 ELSE 1, FALSE)
            /\ network' = network
       ELSE /\ network' = IF network.up THEN poll_once(network) ELSE network
            /\ last' = HostResult("tcp_request", IF network.up THEN 0 ELSE 1, FALSE)
            /\ endpoints' = endpoints
    /\ pc' = None
    /\ AdapterFrame

NextAdapter ==
    \/ \E caller \in AgentIds, target \in Pids :
          QueueRoom(target) /\ AdapterEnter("send_ipc", caller, target)
    \/ \E caller \in AgentIds :
          network.frames < MaxFrames /\ AdapterEnter("tcp_request", caller, 0)
    \/ AdapterSnapshot
    \/ AdapterCheck
    \/ AdapterAct
    \/ HostCallFree /\ \E cap \in AdapterCaps : create_capability(cap)
          /\ UNCHANGED <<sending, pc>>
    \/ HostCallFree /\ \E cap_id \in CapIds : revoke_capability(cap_id)
          /\ UNCHANGED <<sending, pc>>
    \/ HostCallFree /\ \E a \in AgentIds, cap_id \in IssuedIds :
              grant_capability_to_agent(a, cap_id)
          /\ UNCHANGED <<sending, pc>>

SpecAdapter == InitAdapter /\ [][NextAdapter]_vars

----------------------------------------------------------------------------
(* Specification of execute_module: the stages of loading and running a guest *)

\* What an export name of the instance refers to: nothing, a function of type
\* () -> (), a function of another type, or an export that is not a function.
ExportKinds == {"absent", "func", "func with arguments", "not a function"}

\* The guest modules handed to execute_module: whether the bytes compile, the
\* imports link, the start section and the entry point run without a trap,
\* and what "_start" and "main" export.
Modules ==
    [compiles : BOOLEAN, links : BOOLEAN, start_runs : BOOLEAN,
     start_export : ExportKinds, main_export : ExportKinds, entry_runs : BOOLEAN]

\* An entry point lookup that prefers "main".
entry_point_main_first(m) ==
    IF m.main_export \in {"func", "func with arguments"} THEN "main"
    ELSE IF m.start_export \in {"func", "func with arguments"} THEN "_start"
    ELSE "none"

\* instance.get_func("_start").or_else(|| instance.get_func("main"))
entry_point(m) ==
    IF m.start_export \in {"func", "func with arguments"} THEN "_start"
    ELSE IF m.main_export \in {"func", "func with arguments"} THEN "main"
    ELSE "none"

\* start_func.typed::<(), ()>
typed_ok(m) ==
    IF entry_point(m) = "_start" THEN m.start_export = "func"
    ELSE m.main_export = "func"

Stages == <<"compile", "register", "instantiate", "start", "get_func", "typed", "call">>

\* Whether the stage succeeds for the module, and the error it returns.
stage_ok(m, stage) ==
    CASE stage = "compile" -> m.compiles
      [] stage = "register" -> TRUE
      [] stage = "instantiate" -> m.links
      [] stage = "start" -> m.start_runs
      [] stage = "get_func" -> entry_point(m) # "none"
      [] stage = "typed" -> typed_ok(m)
      [] stage = "call" -> m.entry_runs
stage_error(stage) ==
    CASE stage = "compile" -> "Failed to compile module"
      [] stage = "register" -> "Failed to define"
      [] stage = "instantiate" -> "Failed to instantiate module"
      [] stage = "start" -> "Failed to start module"
      [] stage = "get_func" -> "No _start or main function found in module"
      [] stage = "typed" -> "Start func has wrong signature"
      [] stage = "call" -> "Execution failed"

InitModule ==
    /\ store = EmptyMap
    /\ next_cap_id = 1
    /\ agents = EmptyMap
    /\ reg_next_id = 1
    /\ endpoints = EmptyMap
    /\ files = <<>>
    /\ network = NoNetwork
    /\ gmem = [exported |-> FALSE, bytes |-> <<>>]
    /\ issued = <<>>
    /\ revoked = {}
    /\ sending = None
    /\ pc = None
    /\ last = [op |-> "boot", arg |-> 0, ret |-> 0]

ModuleFrame ==
    UNCHANGED <<store, next_cap_id, agents, reg_next_id, endpoints, files, network,
                gmem, issued, revoked, sending>>

\* execute_module(wasm_bytes, agent_pid) is called.
ExecuteBegin(m, agent) ==
    /\ pc = None
    /\ pc' = [tag |-> "Exec", module |-> m, agent |-> agent, next |-> 1,
              ran |-> <<>>, invoked |-> "none"]
    /\ last' = [op |-> "execute_module entered", arg |-> m, ret |-> 0]
    /\ ModuleFrame

\* The next stage runs; `?` returns its error, the last stage returns Ok(()).
ExecuteStage ==
    /\ pc # None
    /\ LET stage == Stages[pc.next]
           ok == stage_ok(pc.module, stage)
           ran == Append(pc.ran, stage)
           invoked == IF stage = "call" THEN entry_point(pc.module) ELSE pc.invoked
       IN  IF ok /\ pc.next < Len(Stages)
           THEN /\ pc' = [pc EXCEPT !.next = @ + 1, !.ran = ran]
                /\ last' = last
           ELSE /\ pc' = None
                /\ last' = [op |-> "execute_module", arg |-> pc.module,
                            ret |-> [ok |-> ok,
                                     err |-> IF ok THEN "" ELSE stage_error(stage),
                                     ran |-> ran, invoked |-> invoked]]
    /\ ModuleFrame

NextModule ==
    \/ \E m \in Modules, agent \in AgentIds : ExecuteBegin(m, agent)
    \/ ExecuteStage

SpecModule == InitModule /\ [][NextModule]_vars

----------------------------------------------------------------------------
(* Specification of dns::resolve: the polling loop of a resolve_dns call *)

\* for tick in 0..200
PollBudget == 200

\* What a poll finds in the UDP socket: nothing, a datagram of at most 12
\* bytes, a longer datagram without a usable A record, or an answer.
Datagrams ==
    {[kind |-> "nothing", ip |-> <<>>], [kind |-> "short", ip |-> <<>>],
     [kind |-> "unparsable", ip |-> <<>>], [kind |-> "answer", ip |-> <<10, 0, 2, 15>>]}

\* parse_dns_response on a datagram longer than 12 bytes
parse_dns_response(d) ==
    IF d.kind = "answer" THEN [tag |-> "Some", ip |-> d.ip] ELSE None

InitDns ==
    /\ store = map_insert(EmptyMap, 1, Network)
    /\ next_cap_id = 2
    /\ agents = map_insert(EmptyMap, 1,
                    [id |-> 1, name |-> "agent", capabilities |-> <<1>>,
                     state |-> "Running"])
    /\ reg_next_id = 2
    /\ endpoints = EmptyMap
    /\ files = <<>>
    /\ network = NetworkUp
    /\ gmem = [exported |-> TRUE, bytes |-> GuestImage]
    /\ issued = <<1>>
    /\ revoked = {}
    /\ sending = None
    /\ pc = None
    /\ last = [op |-> "boot", arg |-> 0, ret |-> 0]

DnsFrame ==
    UNCHANGED <<store, next_cap_id, agents, reg_next_id, endpoints, files, issued,
                revoked, sending>>

\* A loop that stops only when a long datagram arrives.
resolve_loop_done_on_answer_only(tick, received) == received

\* The loop is left after PollBudget turns or by the `break`.
resolve_loop_done(tick, received) == tick >= PollBudget \/ received

\* resolve_dns by an authorized caller with a readable name reaches
\* dns::resolve: the socket is bound and the query queued.
ResolveBegin(caller_pid, name_ptr, name_len, out_ip_ptr) ==
    /\ pc = None
    /\ network.frames < MaxFrames
    /\ gmem.exported /\ can_access_network(agent_capabilities(caller_pid))
    /\ read_ok(name_ptr, name_len) /\ from_utf8_ok(read_bytes(name_ptr, name_len))
    /\ pc' = [tag |-> "Resolve", out |-> out_ip_ptr, tick |-> 0,
              received |-> FALSE, result |-> None]
    /\ last' = [op |-> "resolve_dns entered", arg |-> caller_pid, ret |-> 0]
    /\ UNCHANGED <<network, gmem>>
    /\ DnsFrame

\* One turn of the loop: iface.poll at tick * 10 ms, then the socket is read;
\* tick counts the polls made (the model stops counting past the budget).
ResolvePoll(d) ==
    /\ pc # None
    /\ ~resolve_loop_done(pc.tick, pc.received)
    /\ pc' = [pc EXCEPT !.tick = IF @ <= PollBudget THEN @ + 1 ELSE @,
                        !.received = d.kind \in {"unparsable", "answer"},
                        !.result = IF d.kind \in {"unparsable", "answer"}
                                   THEN parse_dns_response(d) ELSE None]
    /\ UNCHANGED <<network, gmem, last>>
    /\ DnsFrame

\* After the loop: the socket is removed, resolve returns, and resolve_dns
\* writes the address or returns 1.
ResolveReturn ==
    /\ pc # None
    /\ resolve_loop_done(pc.tick, pc.received)
    /\ network' = poll_once(network)
    /\ IF pc.result = None
       THEN /\ gmem' = gmem
            /\ last' = HostResult("resolve_dns", 1, FALSE)
       ELSE IF ~write_ok(gmem.bytes, pc.out, pc.result.ip)
       THEN /\ gmem' = gmem
            /\ last' = HostResult("resolve_dns", 0, TRUE)
       ELSE /\ gmem' = [gmem EXCEPT !.bytes = write_bytes(@, pc.out, pc.result.ip)]
            /\ last' = HostResult("resolve_dns", 0, FALSE)
    /\ pc' = None
    /\ DnsFrame

NextDns ==
    \/ \E s \in {<<0, 1>>, <<0, 2>>}, out \in OutPtrs : ResolveBegin(1, s[1], s[2], out)
    \/ \E d \in Datagrams : ResolvePoll(d)
    \/ ResolveReturn

\* The loop body and the return are straight-line kernel code on the one
\* kernel stack: once entered they run.
SpecDns ==
    /\ InitDns /\ [][NextDns]_vars
    /\ WF_vars(\E d \in Datagrams : ResolvePoll(d))
    /\ WF_vars(ResolveReturn)

----------------------------------------------------------------------------
(* Specification of file_read's output: data and length in guest memory *)

\* (out_ptr, out_len_ptr) pairs: those of OutPairs and one where the data
\* and the length do not overlap.
ReadPairs == OutPairs \cup {<<0, MemSize - 4>>}

\* A guest reads and writes files on a booted kernel, until the kernel panics.
NextRead ==
    \/ ~Halted /\ \E a \in Callers, s \in Slices, o \in ReadPairs :
              file_read(a, s[1], s[2], o[1], o[2])
          /\ UNCHANGED <<sending, pc>>
    \/ ~Halted /\ \E a \in Callers, s \in Slices, d \in Payload :
              Len(files) < MaxFiles /\ file_write(a, s[1], s[2], d[1], d[2])
          /\ UNCHANGED <<sending, pc>>

SpecRead == InitHost /\ [][NextRead]_vars

----------------------------------------------------------------------------
(* Specification of file_list over a VFS that holds files inside and outside
   the callers' prefixes *)

\* The capability agent 1 was spawned with: read "/a", read and write "/",
\* write-only "/", read everything.
ListCaps ==
    { FileSystem(<<47, 97>>, TRUE, FALSE), FileSystem(<<47>>, TRUE, TRUE),
      FileSystem(<<47>>, FALSE, TRUE), FileSystem(<<>>, TRUE, FALSE) }

\* The VFS holds "/a" and "/"; agent 1 holds one capability, agent 2 none.
InitList ==
    /\ \E cap \in ListCaps : store = map_insert(EmptyMap, 1, cap)
    /\ next_cap_id = 2
    /\ agents = map_insert(map_insert(EmptyMap, 1,
                    [id |-> 1, name |-> "agent", capabilities |-> <<1>>,
                     state |-> "Running"]), 2,
                    [id |-> 2, name |-> "agent", capabilities |-> <<>>,
                     state |-> "Running"])
    /\ reg_next_id = 3
    /\ endpoints = EmptyMap
    /\ files = <<VirtualFile(<<47, 97>>, <<72>>, 0, TRUE),
                 VirtualFile(<<47>>, <<72>>, 0, FALSE)>>
    /\ network = NoNetwork
    /\ gmem \in {[exported |-> TRUE, bytes |-> GuestImage],
                 [exported |-> FALSE, bytes |-> <<>>]}
    /\ issued = <<1>>
    /\ revoked = {}
    /\ sending = None
    /\ pc = None
    /\ last = [op |-> "boot", arg |-> 0, ret |-> 0]

\* A guest lists or writes files or asks for a capability, or the kernel
\* revokes one, until the kernel panics.
NextList ==
    \/ ~Halted /\ \E a \in Callers, s \in Slices, o \in ReadPairs :
              file_list(a, s[1], s[2], o[1], o[2])
          /\ UNCHANGED <<sending, pc>>
    \/ ~Halted /\ \E a \in Callers, s \in Slices, d \in Payload :
              EscalationFileRoom(s[1], s[2]) /\ file_write(a, s[1], s[2], d[1], d[2])
          /\ UNCHANGED <<sending, pc>>
    \/ ~Halted /\ \E a \in Callers, cap_type \in 0..3, s \in Details :
              request_capability(a, cap_type, s[1], s[2])
          /\ UNCHANGED <<sending, pc>>
    \/ ~Halted /\ \E cap_id \in CapIds : revoke_capability(cap_id)
          /\ UNCHANGED <<sending, pc>>

SpecList == InitList /\ [][NextList]_vars

----------------------------------------------------------------------------
(* Specification of the gated calls over changing VFS contents and endpoints *)

\* Names the kernel deletes: "/a" and "/".
DenialNames == {<<47, 97>>, <<47>>}

\* A guest makes a file call or sends a message, or the kernel creates an
\* endpoint, receives from one or deletes a file, until the kernel panics.
NextDenial ==
    \/ ~Halted /\ \E a \in Callers, s \in Slices, o \in OutPairs :
              file_read(a, s[1], s[2], o[1], o[2])
          /\ UNCHANGED <<sending, pc>>
    \/ ~Halted /\ \E a \in Callers, s \in Slices, d \in Payload :
              EscalationFileRoom(s[1], s[2]) /\ file_write(a, s[1], s[2], d[1], d[2])
          /\ UNCHANGED <<sending, pc>>
    \/ ~Halted /\ \E a \in Callers, s \in Details, o \in OutPairs :
              file_list(a, s[1], s[2], o[1], o[2])
          /\ UNCHANGED <<sending, pc>>
    \/ ~Halted /\ \E a \in Callers, t \in Pids, s \in Payload :
              QueueRoom(t) /\ send_ipc(a, t, s[1], s[2])
          /\ UNCHANGED <<sending, pc>>
    \/ ~Halted /\ \E p \in Pids : create_endpoint(p)
          /\ UNCHANGED <<sending, pc>>
    \/ ~Halted /\ \E p \in Pids : receive_message(p)
          /\ UNCHANGED <<sending, pc>>
    \/ ~Halted /\ \E name \in DenialNames : delete_file(name)
          /\ UNCHANGED <<sending, pc>>

SpecDenial == InitHost /\ [][NextDenial]_vars

----------------------------------------------------------------------------
(* Properties of the capability store and the predicates (under Spec) *)

\* The bag `caps` without the id `cap_id`.
Without(caps, cap_id) == SelectSeq(caps, LAMBDA x : x # cap_id)

\* The capabilities the ids of the bag resolve to.
Resolved(caps) == {store[caps[i]] : i \in {k \in 1..Len(caps) : caps[k] \in DOMAIN store}}

\* C3: the ids returned by create_capability are pairwise distinct and
\* strictly increasing in the order the creations took the lock, so no id is
\* issued twice, also not after it was revoked.
C3_IdsStrictlyIncreasing ==
    \A i, j \in 1..Len(issued) : i < j => issued[i] < issued[j]

\* C3 witness: a creation that follows a successful revocation.
C3_Witness ==
    /\ last.op = "create_capability"
    /\ revoked # {}
    /\ Len(issued) >= 2

\* C4: revoke_capability(id) returns true iff id was in the store just before
\* the call, removes id and leaves every other record as it was; a revoked id
\* never resolves again, and a second revoke of it returns false.
C4_RevokeStep ==
    \A id \in CapIds :
        (last'.op = "revoke_capability" /\ last'.arg = id) =>
            /\ last'.ret = (id \in DOMAIN store)
            /\ id \notin DOMAIN store'
            /\ (id \in revoked => last'.ret = FALSE)
            /\ \A other \in CapIds \ {id} :
                 validate_capability(other)' = validate_capability(other)
C4_RevokeRemovesForGood ==
    /\ [][C4_RevokeStep]_vars
    /\ [](\A id \in revoked : validate_capability(id) = None)

\* C4 witness: a second revoke of an id that an earlier revoke removed.
C4_Witness ==
    /\ last.op = "revoke_capability"
    /\ last.arg \in revoked
    /\ last.ret = FALSE
    /\ DOMAIN store # {}

\* C5: a revoke of id changes no agent's bag; afterwards every predicate over
\* an agent's bag B gives what it gave before over B without id, and no
\* predicate goes from false to true. (Every bag of Bags is the agent's bag in
\* some run.)
C5_RevokeStep ==
    \A id \in CapIds :
        (last'.op = "revoke_capability" /\ last'.arg = id) =>
            /\ agents' = agents
            /\ \A a \in DOMAIN agents :
                 \* find_capability(B, p) is any(filter_map(B), p); the bag
                 \* is resolved once for all predicates
                 \A after \in {filter_map(agent_capabilities(a))'} :
                 \A before \in {filter_map(agent_capabilities(a))} :
                 \A without \in {filter_map(Without(agent_capabilities(a), id))} :
                 \A p \in Closures :
                    /\ any(after, p) = any(without, p)
                    /\ any(after, p) => any(before, p)
C5_RevocationOnlyRemoves == [][C5_RevokeStep]_vars

\* C5 witness: an agent holds in its bag the id of a capability that has just
\* been revoked, another capability is still in the store, and the bag gives
\* no network access.
C5_Witness ==
    /\ last.op = "revoke_capability"
    /\ last.ret = TRUE
    /\ \E a \in DOMAIN agents :
         /\ \E i \in 1..Len(agents[a].capabilities) :
               agents[a].capabilities[i] = last.arg
         /\ ~can_access_network(agent_capabilities(a))
         /\ DOMAIN store # {}

\* C6: find_capability(bag, p) is true iff some id of the bag resolves to a
\* capability satisfying p (ids that do not resolve are skipped and grant
\* nothing), and every derived predicate refuses the empty bag.
C6_FindIffSomeResolves ==
    /\ \A B \in Bags : \A p \in Closures :
         find_capability(B, p) = (\E c \in Resolved(B) : call(p, c))
    /\ \A a \in Addrs : ~can_read_memory(<<>>, a) /\ ~can_write_memory(<<>>, a)
    /\ \A t \in Pids : ~can_send_to(<<>>, t)
    /\ ~can_spawn(<<>>) /\ ~can_access_network(<<>>)
    /\ \A path \in {<<>>, <<47>>, <<47, 97>>} :
         ~can_read_file(<<>>, path) /\ ~can_write_file(<<>>, path)

\* C6 witness: a bag whose first id was revoked and whose second id
\* resolves to a Network capability is accepted; a bag of unresolved ids is not.
C6_Witness ==
    \E B \in Bags :
        /\ Len(B) = 2
        /\ B[1] \in revoked
        /\ B[1] \notin DOMAIN store
        /\ B[2] \in DOMAIN store
        /\ store[B[2]] = Network
        /\ can_access_network(B)
        /\ ~can_access_network(<<B[1]>>)

\* The address lies in the range of the Memory capability: base <= a < base+size.
Covers(c, a) == c.base <= a /\ a < c.base + c.size

\* C8: can_read_memory(B, a) returns true iff B holds a resolvable Memory
\* capability with read=true and base <= a < base+size, and can_write_memory
\* likewise with write=true (in a build that wraps on overflow and in one that
\* panics on it).
C8_MemoryRangeExact ==
    \A B \in Bags : \A a \in Addrs :
        /\ can_read_memory(B, a)
             = (\E c \in Resolved(B) : c.tag = "Memory" /\ c.read /\ Covers(c, a))
        /\ can_write_memory(B, a)
             = (\E c \in Resolved(B) : c.tag = "Memory" /\ c.write /\ Covers(c, a))
        /\ (~mem_check_panics(B, a, "read") /\ can_read_memory(B, a))
             = (\E c \in Resolved(B) : c.tag = "Memory" /\ c.read /\ Covers(c, a))
        /\ (~mem_check_panics(B, a, "write") /\ can_write_memory(B, a))
             = (\E c \in Resolved(B) : c.tag = "Memory" /\ c.write /\ Covers(c, a))

\* C9: can_access_network refuses every bag without a resolvable Network
\* capability and accepts every bag with one.
C9_NetworkIffNetworkCap ==
    \A B \in Bags :
        /\ Network \in Resolved(B) => can_access_network(B)
        /\ Network \notin Resolved(B) => ~can_access_network(B)

\* C9 witness: the store holds a Network capability and a Spawn capability; the
\* bag with the Spawn id alone is refused, the bag with both is accepted.
C9_Witness ==
    \E n, s \in DOMAIN store :
        /\ store[n] = Network
        /\ store[s].tag = "Spawn"
        /\ ~can_access_network(<<s>>)
        /\ can_access_network(<<s, n>>)

\* C10: can_send_to(B, pid) is true iff B holds a resolvable Process capability
\* for that pid with can_send=true; a Process capability for another pid, or one
\* with can_send=false, does not authorize the send.
C10_SendIffProcessCap ==
    \A B \in Bags : \A p \in Pids :
        /\ can_send_to(B, p)
             = (\E c \in Resolved(B) : c.tag = "Process" /\ c.pid = p /\ c.can_send)
        /\ (\A c \in Resolved(B) : c.tag = "Process" => (c.pid # p \/ ~c.can_send))
             => ~can_send_to(B, p)

\* C10 witness: a receive-only Process capability for pid 2 and a send
\* capability for pid 1: neither authorizes a send to pid 2, the second one
\* authorizes a send to pid 1.
C10_Witness ==
    \E r, t \in DOMAIN store :
        /\ store[r] = Process(2, FALSE, TRUE)
        /\ store[t] = Process(1, TRUE, TRUE)
        /\ ~can_send_to(<<r, t>>, 2)
        /\ can_send_to(<<r, t>>, 1)

----------------------------------------------------------------------------
(* Properties of the host syscalls (under SpecHost) *)

\* Nothing a host call can reach has changed: store, bags, queues, VFS,
\* network stack, guest memory.
NothingTouched ==
    UNCHANGED <<store, next_cap_id, agents, endpoints, files, network, gmem>>

\* No collaborator has changed (guest memory is the guest's own).
NoCollaboratorTouched ==
    UNCHANGED <<store, next_cap_id, agents, endpoints, files, network>>

\* The path at (ptr, len) can be read and decoded.
PathReadable(ptr, len) ==
    gmem.exported /\ read_ok(ptr, len) /\ from_utf8_ok(read_bytes(ptr, len))

\* What the claim says a denied call leaves: code 2, nothing touched.
C1_Returns2 ==
    ~last'.trap /\ ~last'.panic /\ last'.ret = 2 /\ NothingTouched

\* The caller's bag does not give access to the path at (ptr, len): the path
\* cannot be read, or no resolvable capability covers it.
NoReadAccess(a, ptr, len) ==
    ~(PathReadable(ptr, len)
      /\ can_read_file(agent_capabilities(a), read_bytes(ptr, len)))
NoWriteAccess(a, ptr, len) ==
    ~(PathReadable(ptr, len)
      /\ can_write_file(agent_capabilities(a), read_bytes(ptr, len)))

\* C1 (as stated): a gated host syscall whose caller's bag does not satisfy
\* the call's predicate returns 2, and the capability store, every bag, every
\* IPC queue, the VFS, the network stack and the guest memory are unchanged.
C1_DeniedAlwaysReturns2 ==
    [][ /\ last'.op = "send_ipc" =>
           \A a \in Callers, t \in Pids, s \in Payload :
              (~can_send_to(agent_capabilities(a), t)
               /\ send_ipc(a, t, s[1], s[2])) => C1_Returns2
        /\ last'.op = "tcp_request" =>
           \A a \in Callers, ip_ptr \in OutPtrs, port \in {0, 80}, s \in Payload :
              (~can_access_network(agent_capabilities(a))
               /\ tcp_request(a, ip_ptr, port, s[1], s[2])) => C1_Returns2
        /\ last'.op = "resolve_dns" =>
           \A a \in Callers, s \in Details, out \in OutPtrs, answer \in Answers :
              (~can_access_network(agent_capabilities(a))
               /\ resolve_dns(a, s[1], s[2], out, answer)) => C1_Returns2
        /\ last'.op = "file_read" =>
           \A a \in Callers, s \in Slices, o \in OutPairs :
              (NoReadAccess(a, s[1], s[2])
               /\ file_read(a, s[1], s[2], o[1], o[2])) => C1_Returns2
        /\ last'.op = "file_write" =>
           \A a \in Callers, s \in Slices, d \in Payload :
              (NoWriteAccess(a, s[1], s[2])
               /\ file_write(a, s[1], s[2], d[1], d[2])) => C1_Returns2
        /\ last'.op = "file_list" =>
           \A a \in Callers, s \in Details, o \in OutPairs :
              (NoReadAccess(a, s[1], s[2])
               /\ file_list(a, s[1], s[2], o[1], o[2])) => C1_Returns2 ]_vars

\* The step is a gated call whose predicate holds of the caller's bag before
\* the call.
AuthorizedStep ==
    \/ \E a \in Callers, t \in Pids, s \in Payload :
          can_send_to(agent_capabilities(a), t) /\ send_ipc(a, t, s[1], s[2])
    \/ \E a \in Callers, ip_ptr \in OutPtrs, port \in {0, 80}, s \in Payload :
          /\ can_access_network(agent_capabilities(a))
          /\ tcp_request(a, ip_ptr, port, s[1], s[2])
    \/ \E a \in Callers, s \in Details, out \in OutPtrs, answer \in Answers :
          /\ can_access_network(agent_capabilities(a))
          /\ resolve_dns(a, s[1], s[2], out, answer)
    \/ \E a \in Callers, s \in Slices, o \in OutPairs :
          /\ PathReadable(s[1], s[2])
          /\ can_read_file(agent_capabilities(a), read_bytes(s[1], s[2]))
          /\ file_read(a, s[1], s[2], o[1], o[2])
    \/ \E a \in Callers, s \in Slices, d \in Payload :
          /\ PathReadable(s[1], s[2])
          /\ can_write_file(agent_capabilities(a), read_bytes(s[1], s[2]))
          /\ file_write(a, s[1], s[2], d[1], d[2])
    \/ \E a \in Callers, s \in Details, o \in OutPairs :
          /\ PathReadable(s[1], s[2])
          /\ can_read_file(agent_capabilities(a), read_bytes(s[1], s[2]))
          /\ file_list(a, s[1], s[2], o[1], o[2])

TmpDir == <<47, 116, 109, 112, 47>>
TmpDirX == <<47, 116, 109, 112, 47, 120>>
TmpX == <<47, 116, 109, 112, 120>>

\* prefix is, byte for byte, the beginning of path.
IsPrefix(prefix, path) ==
    \A k \in 1..Len(prefix) : k <= Len(path) /\ path[k] = prefix[k]

\* The bag of agent a holds a resolvable FileSystem capability with the
\* given right ("read" or "write") whose path_prefix begins the path.
HoldsFileSystem(a, path, right) ==
    \E i \in 1..Len(agent_capabilities(a)) :
        \E c \in {validate_capability(agent_capabilities(a)[i])} :
            /\ c # None
            /\ c.tag = "FileSystem"
            /\ c[right]
            /\ IsPrefix(c.path_prefix, path)

C11_Denied == ~last'.trap /\ ~last'.panic /\ last'.ret = 2
C11_NotDenied == last'.trap \/ last'.panic \/ last'.ret # 2

\* C11: a file_read, file_write or file_list call for a path P by an agent
\* whose bag holds no resolvable FileSystem capability with the needed right
\* (read for file_read and file_list, write for file_write) and a path_prefix
\* that begins P returns 2; "/tmp/" matches "/tmp/x" but not "/tmpx"; a
\* capability with the empty prefix and the needed right never lets a call be
\* denied.
C11_FileCallsDeniedWithoutPrefix ==
    [][ /\ starts_with(TmpDirX, TmpDir) /\ ~starts_with(TmpX, TmpDir)
        /\ starts_with(TmpX, <<>>) /\ starts_with(<<>>, <<>>)
        /\ last'.op = "file_read" =>
           /\ C11_Denied
              \/ \A a \in Callers, s \in Slices :
                   (/\ PathReadable(s[1], s[2])
                    /\ ~HoldsFileSystem(a, read_bytes(s[1], s[2]), "read"))
                   => \A o \in OutPairs : ~file_read(a, s[1], s[2], o[1], o[2])
           /\ C11_NotDenied
              \/ \A a \in Callers :
                   HoldsFileSystem(a, <<>>, "read")
                   => \A s \in Slices, o \in OutPairs :
                         ~ /\ PathReadable(s[1], s[2])
                           /\ file_read(a, s[1], s[2], o[1], o[2])
        /\ last'.op = "file_write" =>
           /\ C11_Denied
              \/ \A a \in Callers, s \in Slices :
                   (/\ PathReadable(s[1], s[2])
                    /\ ~HoldsFileSystem(a, read_bytes(s[1], s[2]), "write"))
                   => \A d \in Payload : ~file_write(a, s[1], s[2], d[1], d[2])
        /\ last'.op = "file_list" =>
           /\ C11_Denied
              \/ \A a \in Callers, s \in Details :
                   (/\ PathReadable(s[1], s[2])
                    /\ ~HoldsFileSystem(a, read_bytes(s[1], s[2]), "read"))
                   => \A o \in OutPairs : ~file_list(a, s[1], s[2], o[1], o[2])
           /\ C11_NotDenied
              \/ \A a \in Callers :
                   HoldsFileSystem(a, <<>>, "read")
                   => \A s \in Details, o \in OutPairs :
                         ~ /\ PathReadable(s[1], s[2])
                           /\ file_list(a, s[1], s[2], o[1], o[2]) ]_vars

\* C11 witness: a file_list was denied although every agent holds a resolvable
\* FileSystem capability with read=true: no prefix begins the listed path.
C11_Witness ==
    /\ last.op = "file_list" /\ last.ret = 2 /\ ~last.trap /\ ~last.panic
    /\ \A a \in DOMAIN agents : \E i \in 1..Len(agents[a].capabilities) :
          \E c \in {validate_capability(agents[a].capabilities[i])} :
              c # None /\ c.tag = "FileSystem" /\ c.read


----------------------------------------------------------------------------
(* Properties of the agent registry and the IPC queues (under SpecKernel) *)

Known(cap_id) == cap_id \in DOMAIN store \/ cap_id \in revoked

\* C7: every id in an agent's bag or in a queued message resolves in the store
\* or has been revoked, i.e. was issued by create_capability; a send_message
\* that is given an id that does not resolve is refused with
\* "Invalid capability" and enqueues nothing.
C7_HeldIdsWereIssued ==
    /\ \A a \in DOMAIN agents : \A i \in 1..Len(agents[a].capabilities) :
          Known(agents[a].capabilities[i])
    /\ \A p \in DOMAIN endpoints : \A m \in 1..Len(endpoints[p].messages) :
          \A i \in 1..Len(endpoints[p].messages[m].capabilities) :
             Known(endpoints[p].messages[m].capabilities[i])
    /\ (last.op = "send_message"
        /\ \E i \in 1..Len(last.arg[4]) : last.arg[4][i] \notin DOMAIN store)
       => last.ret = "Invalid capability"

\* C7 witness: a send_message carrying a never-issued id has just been refused,
\* while an agent's bag and a queued message hold ids that were revoked since.
C7_Witness ==
    /\ last.op = "send_message" /\ last.ret = "Invalid capability"
    /\ \E i \in 1..Len(last.arg[4]) : ~Known(last.arg[4][i])
    /\ \E a \in DOMAIN agents : \E i \in 1..Len(agents[a].capabilities) :
          agents[a].capabilities[i] \in revoked
    /\ \E p \in DOMAIN endpoints : \E m \in 1..Len(endpoints[p].messages) :
          \E i \in 1..Len(endpoints[p].messages[m].capabilities) :
             endpoints[p].messages[m].capabilities[i] \in revoked

----------------------------------------------------------------------------
(* Properties of the agent registry (under SpecRegistry) *)

\* Every record sits under its own id, ids are 1..next_id-1, and an id that
\* names no record has the empty bag.
C12_RegistryShape ==
    /\ DOMAIN agents = 1..(reg_next_id - 1)
    /\ \A a \in DOMAIN agents : agents[a].id = a /\ agent_pid(a) > 0
    /\ \A a \in AskedIds : a \notin DOMAIN agents => agent_capabilities(a) = <<>>

\* C12: spawn_agent returns an id above 0 that is larger than every id
\* returned before, so ids are pairwise distinct and AgentId(0) is never a
\* spawned agent; the new agent is recorded Running with the bag it was given,
\* the other records are untouched, no record ever leaves the registry, and
\* agent_capabilities of an id that names no agent is the empty bag.
C12_SpawnIdsUniqueIncreasing ==
    [][ /\ C12_RegistryShape /\ C12_RegistryShape'
        /\ DOMAIN agents \subseteq DOMAIN agents'
        /\ last'.op = "spawn_agent" =>
             \A id \in {last'.ret} :
                /\ id > 0
                /\ \A a \in DOMAIN agents : id > a
                /\ DOMAIN agents' = DOMAIN agents \cup {id}
                /\ agents'[id].state = "Running"
                /\ agents'[id].capabilities = last'.arg
                /\ agent_capabilities(id)' = last'.arg
                /\ \A a \in DOMAIN agents : agents'[a] = agents[a] ]_vars

\* C12 witness: the second spawn returned 2, after 1, and gave the agent a
\* non-empty bag.
C12_Witness ==
    /\ last.op = "spawn_agent" /\ last.ret = 2 /\ last.arg # <<>>
    /\ DOMAIN agents = {1, 2}
    /\ agents[2].capabilities = last.arg /\ agents[2].state = "Running"

C14_GrantOnlyToRunning ==
    [][ last'.op = "grant_capability_to_agent" =>
          \A a \in {last'.arg[1]}, cap \in {last'.arg[2]} :
             IF a \in DOMAIN agents /\ agents[a].state = "Running"
             THEN agents' = [agents EXCEPT ![a].capabilities = Append(@, cap)]
             ELSE agents' = agents ]_vars

----------------------------------------------------------------------------
(* Properties of the IPC queues (under SpecQueue) *)

\* No queue is longer than its max_messages, which is 32.
C15_QueuesWithinMax ==
    \A p \in DOMAIN endpoints :
        /\ endpoints[p].max_messages = 32
        /\ Len(endpoints[p].messages) <= endpoints[p].max_messages

\* C15: every queue holds at most max_messages = 32 messages; a send to an
\* endpoint holding fewer than 32 messages succeeds and makes the queue one
\* longer (so the 32nd enqueue succeeds), and a send to an endpoint already
\* holding 32 fails with "Message queue full" and leaves every queue unchanged.
C15_QueueNeverExceedsMax ==
    [][ /\ C15_QueuesWithinMax /\ C15_QueuesWithinMax'
        /\ (last'.op = "send_message" /\ last'.arg[2] \in DOMAIN endpoints) =>
             \A r \in {last'.arg[2]} :
                IF Len(endpoints[r].messages) >= 32
                THEN last'.ret = "Message queue full" /\ endpoints' = endpoints
                ELSE /\ last'.ret = "Ok"
                     /\ Len(endpoints'[r].messages) = Len(endpoints[r].messages) + 1
                     /\ \A p \in DOMAIN endpoints \ {r} :
                           endpoints'[p] = endpoints[p] ]_vars

\* C15 witness: a send has just been refused with "Message queue full" by an
\* endpoint that holds 32 messages.
C15_Witness ==
    /\ last.op = "send_message" /\ last.ret = "Message queue full"
    /\ Len(endpoints[last.arg[2]].messages) = 32

----------------------------------------------------------------------------
(* Properties of IPC delivery (under SpecFifo) *)

\* C16: delivery is first in, first out. A successful send_message puts its
\* message behind all messages already queued for the recipient and touches
\* no other queue; receive_message returns the message at the head of the
\* queue and leaves the rest in order; on an empty or absent endpoint it
\* returns none and changes nothing; no other step changes a queue. Hence the
\* messages received from an endpoint are the messages sent to it, in send
\* order.
C16_FifoDelivery ==
    [][ /\ (last'.op = "send_message" /\ last'.ret = "Ok") =>
             \A r \in {last'.arg[2]} :
                /\ r \in DOMAIN endpoints
                /\ endpoints'[r].messages =
                      endpoints[r].messages
                      \o <<Message(last'.arg[1], last'.arg[3], last'.arg[4])>>
                /\ \A p \in DOMAIN endpoints \ {r} : endpoints'[p] = endpoints[p]
        /\ (last'.op = "send_message" /\ last'.ret # "Ok") =>
             endpoints' = endpoints
        /\ last'.op = "receive_message" =>
             \A p \in {last'.arg} :
                IF p \in DOMAIN endpoints /\ Len(endpoints[p].messages) > 0
                THEN /\ last'.ret = endpoints[p].messages[1]
                     /\ <<last'.ret>> \o endpoints'[p].messages
                           = endpoints[p].messages
                     /\ \A q \in DOMAIN endpoints \ {p} :
                           endpoints'[q] = endpoints[q]
                ELSE last'.ret = None /\ endpoints' = endpoints
        /\ last'.op \notin {"send_message", "receive_message"} =>
             \A p \in DOMAIN endpoints : endpoints'[p] = endpoints[p] ]_vars

\* C16 witness: a receive has returned the message of sender 1 from a queue in
\* which a different message, of sender 2, is still waiting.
C16_Witness ==
    /\ last.op = "receive_message" /\ last.ret # None
    /\ last.ret.sender = 1 /\ last.ret.data = <<>>
    /\ Len(endpoints[last.arg].messages) = 1
    /\ endpoints[last.arg].messages[1].sender = 2
    /\ endpoints[last.arg].messages[1].data = <<72, 105>>

\* C17 (as amended): for a pid that has an endpoint with an empty queue,
\* send_message(sender, pid, data, no capabilities) returns Ok, and a
\* receive_message(pid) that follows it at once returns the message with that
\* sender, that payload and no capabilities.
C17_RoundTripOnEmptyQueue ==
    [][ /\ (/\ last'.op = "send_message"
            /\ last'.arg[2] \in DOMAIN endpoints
            /\ endpoints[last'.arg[2]].messages = <<>>)
           => last'.ret = "Ok"
        /\ (/\ last.op = "send_message" /\ last.ret = "Ok"
            /\ last'.op = "receive_message" /\ last'.arg = last.arg[2]
            /\ Len(endpoints[last.arg[2]].messages) = 1)
           => /\ last'.ret # None
              /\ last'.ret.data = last.arg[3]
              /\ last'.ret.sender = last.arg[1]
              /\ last'.ret.capabilities = <<>> ]_vars

\* C17 witness: a receive has returned the payload "Hi" and left the queue
\* empty: the message was alone in the queue.
C17_Witness ==
    /\ last.op = "receive_message" /\ last.ret # None
    /\ last.ret.data = <<72, 105>>
    /\ endpoints[last.arg].messages = <<>>

\* C17 (as stated): for every pid and payload, send_message(sender, pid, data,
\* no capabilities) followed by receive_message(pid) yields a message with
\* that payload and that sender.
C17_RoundTripAlways ==
    [][ (/\ last.op = "send_message" /\ last.arg[4] = <<>>
         /\ last'.op = "receive_message" /\ last'.arg = last.arg[2])
        => /\ last'.ret # None
           /\ last'.ret.data = last.arg[3]
           /\ last'.ret.sender = last.arg[1] ]_vars

----------------------------------------------------------------------------
(* Properties of send_message's checks (under SpecSend) *)

\* C18: a send_message whose capability list holds an id that does not
\* resolve returns "Invalid capability" and leaves every queue unchanged,
\* whether or not the recipient has an endpoint and whether or not its queue
\* is full; a send_message whose ids all resolve, to a pid without endpoint,
\* returns "No such endpoint" and creates no endpoint.
C18_InvalidCapabilityFirst ==
    [][ last'.op = "send_message" =>
          \A r \in {last'.arg[2]}, caps \in {last'.arg[4]} :
             /\ (\E i \in 1..Len(caps) : caps[i] \notin DOMAIN store)
                => last'.ret = "Invalid capability" /\ endpoints' = endpoints
             /\ ((\A i \in 1..Len(caps) : caps[i] \in DOMAIN store)
                 /\ r \notin DOMAIN endpoints)
                => /\ last'.ret = "No such endpoint"
                   /\ endpoints' = endpoints
                   /\ r \notin DOMAIN endpoints' ]_vars

\* C18 witness: a send carrying one id that resolves and one that does not
\* has been refused with "Invalid capability" by a recipient whose queue is
\* full.
C18_Witness ==
    /\ last.op = "send_message" /\ last.ret = "Invalid capability"
    /\ \E i \in 1..Len(last.arg[4]) : last.arg[4][i] \in DOMAIN store
    /\ last.arg[2] \in DOMAIN endpoints
    /\ Len(endpoints[last.arg[2]].messages) = endpoints[last.arg[2]].max_messages

----------------------------------------------------------------------------
(* Properties of send_message next to concurrent revocation (under SpecRace) *)

\* C19 (as stated): whenever a message is appended to a queue, every
\* capability id it carries resolves in the store at that instant, and the
\* step appends the whole message or nothing, whatever revoke_capability
\* calls run between the steps of send_message.
C19_EnqueuedIdsResolve ==
    [][ \A p \in DOMAIN endpoints :
          Len(endpoints'[p].messages) > Len(endpoints[p].messages) =>
             \A m \in {endpoints'[p].messages[Len(endpoints'[p].messages)]} :
                /\ endpoints'[p].messages = Append(endpoints[p].messages, m)
                /\ m.capabilities = last'.arg[4] /\ m.data = last'.arg[3]
                /\ \A i \in 1..Len(m.capabilities) :
                      m.capabilities[i] \in DOMAIN store' ]_vars

----------------------------------------------------------------------------
(* Properties of the endpoints' lifetime (under SpecKernel) *)

\* C20: an endpoint that exists keeps existing, with the same max_messages,
\* whatever step is taken; terminate_agent touches no endpoint; create_endpoint
\* for a pid that has an endpoint returns "Endpoint already exists" and leaves
\* every endpoint as it was, and for a pid that has none it adds an empty
\* endpoint and returns Ok.
C20_EndpointsNeverDissolve ==
    [][ /\ \A p \in DOMAIN endpoints :
              /\ p \in DOMAIN endpoints'
              /\ endpoints'[p].max_messages = endpoints[p].max_messages
        /\ last'.op = "terminate_agent" => endpoints' = endpoints
        /\ last'.op = "create_endpoint" =>
             \A p \in {last'.arg} :
                IF p \in DOMAIN endpoints
                THEN /\ last'.ret = "Endpoint already exists"
                     /\ endpoints' = endpoints
                ELSE /\ last'.ret = "Ok"
                     /\ DOMAIN endpoints' = DOMAIN endpoints \cup {p}
                     /\ endpoints'[p].messages = <<>>
                     /\ \A q \in DOMAIN endpoints : endpoints'[q] = endpoints[q]
      ]_vars

\* C20 witness: create_endpoint has been refused for a pid whose agent is
\* Terminated and whose endpoint still holds a queued message.
C20_Witness ==
    /\ last.op = "create_endpoint" /\ last.ret = "Endpoint already exists"
    /\ last.arg \in DOMAIN agents /\ agents[last.arg].state = "Terminated"
    /\ Len(endpoints[last.arg].messages) = 1

----------------------------------------------------------------------------
(* Properties of capabilities carried in messages (under SpecKernel) *)

\* C21: capability ids in a message are references only: a send_message or
\* receive_message step changes no agent's bag (nor any other part of the
\* registry) and leaves the capability store as it was.
C21_DeliveryTransfersNothing ==
    [][ last'.op \in {"send_message", "receive_message"} =>
          /\ agents' = agents
          /\ store' = store
          /\ next_cap_id' = next_cap_id ]_vars

\* C21 witness: a message carrying a capability id has been received; the
\* sender still holds the id in its bag and the receiver's bag is empty.
C21_Witness ==
    /\ last.op = "receive_message" /\ last.ret # None
    /\ last.ret.capabilities # <<>>
    /\ last.ret.sender \in DOMAIN agents /\ last.arg \in DOMAIN agents
    /\ last.ret.sender # last.arg
    /\ agents[last.ret.sender].capabilities = last.ret.capabilities
    /\ agents[last.arg].capabilities = <<>>
    /\ last.ret.capabilities[1] \in DOMAIN store

----------------------------------------------------------------------------
(* Properties of the VFS (under SpecVfs) *)

\* C22 (as stated): no two VFS entries have the same name, in every state
\* reached by register_file, write_file and delete_file.
C22_NamesUnique ==
    \A i \in 1..Len(files), j \in 1..Len(files) :
        files[i].name = files[j].name => i = j

\* The read-only entries of a file list, in order.
ReadOnlyEntries(fs) == SelectSeq(fs, LAMBDA f : f.read_only)

----------------------------------------------------------------------------
(* Properties of write_file and delete_file (under SpecVfsBoot) *)

\* The entries of a file list whose name is not n, in order.
OtherNames(fs, n) == SelectSeq(fs, LAMBDA f : f.name # n)

----------------------------------------------------------------------------
(* Properties of file_write's return codes (under SpecFiles) *)

C25_Plain(code) == ~last'.trap /\ ~last'.panic /\ last'.ret = code

\* C25: a file_write with readable path and data, by an agent whose bag
\* authorizes writing the path, on an existing read-only file returns 1 and
\* leaves the VFS unchanged; a file_write returns 2 only when can_write_file
\* is false for the caller and the path, and 0 only when write_file accepted
\* the write.
C25_FileWriteCodes ==
    [][ last'.op = "file_write" =>
          /\ (C25_Plain(1) /\ files' = files)
             \/ \A a \in Callers, s \in Slices :
                  (/\ PathReadable(s[1], s[2])
                   /\ can_write_file(agent_capabilities(a), read_bytes(s[1], s[2]))
                   /\ find_file(read_bytes(s[1], s[2])) # 0
                   /\ files[find_file(read_bytes(s[1], s[2]))].read_only)
                  => \A d \in Payload :
                        read_ok(d[1], d[2]) => ~file_write(a, s[1], s[2], d[1], d[2])
          /\ C25_Plain(2) =>
               \A a \in Callers, s \in Slices :
                  (/\ PathReadable(s[1], s[2])
                   /\ can_write_file(agent_capabilities(a), read_bytes(s[1], s[2])))
                  => \A d \in Payload : ~file_write(a, s[1], s[2], d[1], d[2])
          /\ C25_Plain(0) =>
               \A a \in Callers, s \in Slices, d \in Payload :
                  file_write(a, s[1], s[2], d[1], d[2])
                  => /\ write_file_ok(read_bytes(s[1], s[2]))
                     /\ files' = write_file_effect(read_bytes(s[1], s[2]),
                                                   read_bytes(d[1], d[2]), a)
      ]_vars

\* C25 witness: a file_write on the read-only "/a" has returned 1; agent 1
\* holds a capability that allows writing "/a" and the file is as it was
\* mounted.
C25_Witness ==
    /\ last.op = "file_write" /\ last.ret = 1 /\ ~last.trap /\ ~last.panic
    /\ can_write_file(agent_capabilities(1), <<47, 97>>)
    /\ files[1] = VirtualFile(<<47, 97>>, <<72>>, 0, TRUE)

----------------------------------------------------------------------------
(* Properties of request_capability's grants (under SpecEscalation) *)

\* "/agent/"
AgentDir == <<47, 97, 103, 101, 110, 116, 47>>

\* The capability the caller is to receive for a kind and a detail string.
C26_Expected(kind, detail) ==
    CASE kind = 0 -> Network
      [] kind = 1 -> FileSystem(IF detail = <<>> THEN AgentDir ELSE detail, TRUE, TRUE)
      [] kind = 2 -> Spawn(5)

\* The predicate matching the kind holds of the bag in the store.
C26_Holds(kind, bag, detail) ==
    CASE kind = 0 -> can_access_network(bag)
      [] kind = 1 ->
           \A path \in {(IF detail = <<>> THEN AgentDir ELSE detail) \o <<120>>} :
               can_read_file(bag, path) /\ can_write_file(bag, path)
      [] kind = 2 -> can_spawn(bag)

\* A request_capability step grants what its kind names, to the caller only.
C26_GrantStep ==
    (last'.op = "request_capability" /\ ~last'.trap /\ ~last'.panic) =>
        \A a \in Callers \cap DOMAIN agents, kind \in 0..3, s \in EscalationDetails :
            \A detail \in {IF s[2] > 0 /\ read_ok(s[1], s[2])
                           THEN read_bytes(s[1], s[2]) ELSE <<>>} :
                (from_utf8_ok(detail) /\ request_capability(a, kind, s[1], s[2])) =>
                    IF kind \in {0, 1, 2}
                    THEN /\ last'.ret = 0
                         /\ next_cap_id \notin DOMAIN store
                         /\ next_cap_id \in DOMAIN store'
                         /\ store'[next_cap_id] = C26_Expected(kind, detail)
                         /\ \A c \in DOMAIN store : store'[c] = store[c]
                         /\ agents'[a].capabilities =
                                Append(agents[a].capabilities, next_cap_id)
                         /\ \A b \in DOMAIN agents \ {a} : agents'[b] = agents[b]
                         /\ DOMAIN agents' = DOMAIN agents
                         /\ C26_Holds(kind, agent_capabilities(a), detail)'
                    ELSE /\ last'.ret = 1
                         /\ store' = store
                         /\ next_cap_id' = next_cap_id
                         /\ agents' = agents

\* A tcp_request step that returns 2 was not made by an agent with network
\* access.
C26_TcpStep ==
    (last'.op = "tcp_request" /\ ~last'.trap /\ ~last'.panic /\ last'.ret = 2) =>
        \A a \in Callers, s \in Payload :
            can_access_network(agent_capabilities(a)) =>
                ~tcp_request(a, MemSize - 4, 80, s[1], s[2])

\* C26: a request_capability call by a registered agent that reads its detail
\* (a UTF-8 string, possibly empty) returns 0 for the kinds 0, 1 and 2: the id
\* it creates was not in the store before, resolves afterwards to Network,
\* to a read-write FileSystem capability on the detail ("/agent/" for an empty
\* detail) or to Spawn{max_children = 5}, is appended to the caller's bag and
\* to no other bag, and the matching predicate holds for the caller, so that a
\* tcp_request by an agent with network access never returns 2.  Any other
\* kind returns 1, creates no capability and changes no bag.
C26_RequestCapabilityGrants == [][C26_GrantStep /\ C26_TcpStep]_vars

\* Agent 2 asked for a FileSystem capability with an empty detail and holds
\* the "/agent/" capability; agent 1's bag is the one it booted with.
C26_Witness ==
    /\ last.op = "request_capability" /\ last.ret = 0 /\ ~last.trap /\ ~last.panic
    /\ agent_capabilities(2) = <<2>>
    /\ validate_capability(2) = FileSystem(AgentDir, TRUE, TRUE)
    /\ agent_capabilities(1) = <<1>>

----------------------------------------------------------------------------
(* Properties of the escalation audit trail (under SpecEscalation) *)

\* "CAP_REQUEST:<pid>:<kind>:<detail>"
C27_Record(pid, kind, detail) ==
    CAP_REQUEST \o decimal(pid) \o <<58>> \o decimal(kind) \o <<58>> \o detail

\* C27: while the Kernel Supervisor (PID 0) has an endpoint, every
\* request_capability call that reads its detail appends to that endpoint's
\* queue one message whose sender is the caller and whose payload is
\* "CAP_REQUEST:<pid>:<kind>:<detail>", whether or not it grants.
C27_AuditRecorded ==
    [][(/\ last'.op = "request_capability" /\ ~last'.trap /\ ~last'.panic
        /\ KERNEL_SUPERVISOR_PID \in DOMAIN endpoints) =>
            \A a \in Callers, kind \in 0..3, s \in EscalationDetails :
                \A detail \in {IF s[2] > 0 /\ read_ok(s[1], s[2])
                               THEN read_bytes(s[1], s[2]) ELSE <<>>} :
                    (from_utf8_ok(detail) /\ request_capability(a, kind, s[1], s[2])) =>
                        endpoints'[KERNEL_SUPERVISOR_PID].messages =
                            Append(endpoints[KERNEL_SUPERVISOR_PID].messages,
                                   Message(a, C27_Record(a, kind, detail), <<>>))
     ]_vars

----------------------------------------------------------------------------
(* Properties of the order of copying and authorization (under SpecHost) *)

\* The slice lies in the guest's linear memory.
C28_Inside(ptr, len) == ptr + len <= Len(gmem.bytes)

\* The outcome the order "copy, then authorize" gives a call whose buffers
\* can be allocated: a trap when an input slice lies outside the memory,
\* and otherwise code 2 without a trap when the caller is not authorized.
C28_Outcome(inside, text_ok, authorized) ==
    IF ~inside THEN last'.trap
    ELSE (text_ok /\ ~authorized) => (last'.ret = 2 /\ ~last'.trap)

C28_SendIpcStep ==
    (last'.op = "send_ipc" /\ gmem.exported /\ ~last'.panic) =>
        \A a \in Callers, t \in Pids, s \in Payload :
            send_ipc(a, t, s[1], s[2]) =>
                C28_Outcome(C28_Inside(s[1], s[2]), TRUE,
                            can_send_to(agent_capabilities(a), t))

C28_TcpRequestStep ==
    (last'.op = "tcp_request" /\ gmem.exported /\ ~last'.panic) =>
        \A a \in Callers, ip_ptr \in OutPtrs, port \in {0, 80}, s \in Payload :
            (alloc_ok(s[2]) /\ tcp_request(a, ip_ptr, port, s[1], s[2])) =>
                C28_Outcome(C28_Inside(ip_ptr, 4) /\ C28_Inside(s[1], s[2]), TRUE,
                            can_access_network(agent_capabilities(a)))

C28_ResolveDnsStep ==
    (last'.op = "resolve_dns" /\ gmem.exported /\ ~last'.panic) =>
        \A a \in Callers, s \in Details, out \in OutPtrs, answer \in Answers :
            (alloc_ok(s[2]) /\ resolve_dns(a, s[1], s[2], out, answer)) =>
                C28_Outcome(C28_Inside(s[1], s[2]),
                            C28_Inside(s[1], s[2]) /\ from_utf8_ok(read_bytes(s[1], s[2])),
                            can_access_network(agent_capabilities(a)))

\* C28: in send_ipc, tcp_request and resolve_dns a call with an input slice
\* outside the guest's linear memory traps whether or not the caller is
\* authorized, and a denied call whose inputs lie inside the memory returns 2
\* and does not trap.
C28_CopyBeforeAuthorization ==
    [][C28_SendIpcStep /\ C28_TcpRequestStep /\ C28_ResolveDnsStep]_vars

----------------------------------------------------------------------------
(* Properties of send_ipc's return codes (under SpecEscalation) *)

\* The target has an endpoint and its queue grew by the caller's message.
C29_Enqueued(a, t, data) ==
    /\ t \in DOMAIN endpoints
    /\ t \in DOMAIN endpoints'
    /\ endpoints'[t].messages = Append(endpoints[t].messages, Message(a, data, <<>>))

C29_SendIpcStep ==
    (last'.op = "send_ipc" /\ ~last'.panic) =>
        /\ last'.ret \in {0, 1, 2}
        /\ \A a \in Callers, t \in Pids, s \in Payload :
               (/\ gmem.exported /\ read_ok(s[1], s[2])
                /\ can_send_to(agent_capabilities(a), t)
                /\ send_ipc(a, t, s[1], s[2])) =>
                   /\ ~last'.trap
                   /\ last'.ret = 0 <=> C29_Enqueued(a, t, read_bytes(s[1], s[2]))
                   /\ (t \notin DOMAIN endpoints \/ Len(endpoints[t].messages) >= 32) =>
                          (last'.ret = 1 /\ endpoints' = endpoints)

\* C29: a send_ipc call whose payload can be read and whose caller is
\* authorized for the target does not trap and returns 0 exactly when the
\* caller's message was appended to the target's queue; when the target has
\* no endpoint or its queue holds 32 messages it returns 1 and every queue is
\* as before.  The result of send_ipc is always 0, 1 or 2.
C29_SendIpcCodes == [][C29_SendIpcStep]_vars

\* Agent 1, authorized for agent 2, sent to agent 2's full queue and got 1.
C29_Witness ==
    /\ last.op = "send_ipc" /\ last.ret = 1 /\ ~last.trap /\ ~last.panic
    /\ can_send_to(agent_capabilities(1), 2)
    /\ ~can_send_to(agent_capabilities(1), KERNEL_SUPERVISOR_PID)
    /\ 2 \in DOMAIN endpoints
    /\ Len(endpoints[2].messages) = max_messages
    /\ KERNEL_SUPERVISOR_PID \notin DOMAIN endpoints

----------------------------------------------------------------------------
(* Properties of failing host calls (under SpecEscalation) *)

\* The last host call failed: it trapped or returned a non-zero code.
C30_Failed(l) == l.op \in HostOps /\ ~l.panic /\ (l.trap \/ l.ret # 0)

\* C30: a host call that traps or returns a non-zero code leaves every
\* registry record (bag and state), the queue of every agent's endpoint and
\* every VFS file as they were.
C30_FailureChangesNoAgent ==
    [][C30_Failed(last') =>
          /\ agents' = agents
          /\ files' = files
          /\ DOMAIN endpoints' = DOMAIN endpoints
          /\ \A p \in DOMAIN endpoints \ {KERNEL_SUPERVISOR_PID} :
                 endpoints'[p] = endpoints[p]
     ]_vars

\* Agent 1 holds a granted capability and owns the file "/", agent 2's queue
\* holds a message, and the last call, a file_write, was denied.
C30_Witness ==
    /\ C30_Failed(last) /\ last.op = "file_write" /\ last.ret = 2
    /\ agent_capabilities(1) = <<1, 2>>
    /\ Len(files) = 2 /\ files[2].owner_pid = 1
    /\ 2 \in DOMAIN endpoints /\ Len(endpoints[2].messages) = 1

----------------------------------------------------------------------------
(* Properties of the lock discipline (under SpecLocks) *)

\* The subsystem a lock belongs to and its place in the order
\* CapabilityStore < AgentRegistry < {IPC, VFS, Network}.
C31_Subsystem(l) ==
    CASE l \in {"CAPABILITY_STORE", "NEXT_CAP_ID"} -> "CapabilityStore"
      [] l = "REGISTRY" -> "AgentRegistry"
      [] l = "IPC_ENDPOINTS" -> "IPC"
      [] l = "VFS" -> "VFS"
      [] l = "NETWORK" -> "Network"
C31_Rank(l) ==
    CASE C31_Subsystem(l) = "CapabilityStore" -> 1
      [] C31_Subsystem(l) = "AgentRegistry" -> 2
      [] OTHER -> 3

\* Thread t spins on a lock that thread u holds.
C31_WaitsFor(t, u) ==
    Busy(t) /\ NextEvent(t)[1] = "lock" /\ NextEvent(t)[2] \in Held(u)

\* t reaches u along at most n waits-for edges.
RECURSIVE C31_WaitPath(_, _, _)
C31_WaitPath(t, u, n) ==
    /\ n > 0
    /\ \/ C31_WaitsFor(t, u)
       \/ \E v \in Threads : C31_WaitsFor(t, v) /\ C31_WaitPath(v, u, n - 1)

----------------------------------------------------------------------------
(* Properties of the check-then-act of a host call (under SpecAdapter) *)

\* An id at some position of the bag resolves to a capability that makes the
\* predicate of the call true.
C32_StillAuthorized(op, bag, target) ==
    \E i \in 1..Len(bag) :
        \E c \in {validate_capability(bag[i])} :
            /\ c # None
            /\ IF op = "send_ipc"
               THEN c.tag = "Process" /\ c.pid = target /\ c.can_send
               ELSE c.tag = "Network"

----------------------------------------------------------------------------
(* Properties of execute_module's stages (under SpecModule) *)

\* The export is a function.
C33_IsFunc(kind) == kind \in {"func", "func with arguments"}

\* The stages in `ran` are the first stages of the fixed order, and each
\* but the last succeeded.
C33_InOrder(m, ran) ==
    /\ Len(ran) <= Len(Stages)
    /\ ran = SubSeq(Stages, 1, Len(ran))
    /\ \A i \in 1..(Len(ran) - 1) : stage_ok(m, ran[i])

\* C33: execute_module runs compile, register, instantiate, start section,
\* entry lookup, signature check and entry call in this order and stops at
\* the first stage that fails, returning an error; the entry point it calls
\* is "_start" when "_start" is an exported function and otherwise "main";
\* after a failed compile, instantiate or start section, and for a module
\* that exports neither function, no entry point is called and the result is
\* an error.
C33_StagesInOrder ==
    /\ pc # None => (C33_InOrder(pc.module, pc.ran) /\ Len(pc.ran) = pc.next - 1
                    /\ (Len(pc.ran) > 0 => stage_ok(pc.module, pc.ran[Len(pc.ran)])))
    /\ last.op = "execute_module" =>
           \A m \in {last.arg}, r \in {last.ret} :
               /\ C33_InOrder(m, r.ran)
               /\ Len(r.ran) > 0
               /\ r.ok <=> (r.ran = Stages /\ m.entry_runs)
               /\ ~r.ok => (r.err # "" /\ ~stage_ok(m, r.ran[Len(r.ran)]))
               /\ (r.invoked # "none") <=> (r.ran = Stages)
               /\ (r.invoked # "none") =>
                      r.invoked = IF C33_IsFunc(m.start_export) THEN "_start" ELSE "main"
               /\ (~m.compiles \/ ~m.links \/ ~m.start_runs) =>
                      (~r.ok /\ r.invoked = "none")
               /\ (~C33_IsFunc(m.start_export) /\ ~C33_IsFunc(m.main_export)) =>
                      (~r.ok /\ r.invoked = "none")

\* A module without "_start" ran to the end through its "main".
C33_Witness ==
    /\ last.op = "execute_module"
    /\ last.ret.ok
    /\ last.ret.invoked = "main"
    /\ last.arg.start_export = "absent"
    /\ last.ret.ran = Stages

----------------------------------------------------------------------------
(* Properties of the DNS polling budget (under SpecDns) *)

\* The resolve call made at most 200 polls.
C34_WithinBudget == pc # None => pc.tick <= 200

\* When resolve returns without an address the syscall returns 1 and the
\* guest memory is as before; it returns without an address exactly when
\* the loop ended without a parsable answer.
C34_ReturnStep ==
    (pc # None /\ pc' = None) =>
        /\ pc.tick = 200 \/ pc.received
        /\ (pc.result = None) <=> (last'.ret = 1 /\ ~last'.trap)
        /\ (pc.result = None) => gmem' = gmem

\* C34: a resolve_dns call that reaches dns::resolve polls at most 200 times
\* and always returns; when no parsable answer arrived by then it returns 1
\* and leaves the guest memory unchanged.
C34_DnsTerminates ==
    /\ []C34_WithinBudget
    /\ [][C34_ReturnStep]_vars
    /\ (pc # None) ~> (pc = None)

\* The 200th poll found nothing: the budget is spent.
C34_Witness ==
    /\ pc # None
    /\ pc.tick = 200
    /\ ~pc.received
    /\ pc.result = None

----------------------------------------------------------------------------
(* Properties of file_read's result and output (under SpecRead) *)

\* Byte k (from 1) of the little-endian 32-bit encoding of n.
C35_LeByte(n, k) ==
    CASE k = 1 -> n % 256
      [] k = 2 -> (n \div 256) % 256
      [] k = 3 -> (n \div 65536) % 256
      [] k = 4 -> (n \div 16777216) % 256

\* The guest memory after `data` was written at out_ptr and then its length
\* at out_len_ptr: address by address (addresses count from 0).
C35_Written(before, after, out_ptr, out_len_ptr, data) ==
    /\ Len(after) = Len(before)
    /\ \A addr \in 0..(Len(before) - 1) :
           after[addr + 1] =
               IF addr >= out_len_ptr /\ addr < out_len_ptr + 4
               THEN C35_LeByte(Len(data), addr - out_len_ptr + 1)
               ELSE IF addr >= out_ptr /\ addr < out_ptr + Len(data)
               THEN data[addr - out_ptr + 1]
               ELSE before[addr + 1]

C35_FileReadStep ==
    (last'.op = "file_read" /\ ~last'.panic /\ gmem.exported) =>
        \A a \in Callers, s \in Slices, o \in ReadPairs :
            (read_ok(s[1], s[2]) /\ alloc_ok(s[2])) =>
                \A path \in {read_bytes(s[1], s[2])} :
                    (/\ from_utf8_ok(path)
                     /\ can_read_file(agent_capabilities(a), path)
                     /\ file_read(a, s[1], s[2], o[1], o[2])) =>
                        IF \A i \in 1..Len(files) : files[i].name # path
                        THEN last'.ret = 3 /\ ~last'.trap /\ gmem' = gmem
                        ELSE \A i \in 1..Len(files) :
                                 (files[i].name = path
                                  /\ \A j \in 1..(i - 1) : files[j].name # path) =>
                                     IF /\ o[1] + Len(files[i].data) <= Len(gmem.bytes)
                                        /\ o[2] + 4 <= Len(gmem.bytes)
                                     THEN /\ last'.ret = 0 /\ ~last'.trap
                                          /\ C35_Written(gmem.bytes, gmem'.bytes,
                                                         o[1], o[2], files[i].data)
                                     ELSE last'.trap

\* C35: a file_read call by a caller authorized for the path returns 3 and
\* leaves the guest memory unchanged when no file has that name; when the
\* file exists and both output ranges lie in the guest memory it returns 0,
\* the file's bytes are at out_ptr and their count, as four little-endian
\* bytes, at out_len_ptr (written last), and nothing else in the memory
\* changed; it never returns 0 otherwise.
C35_FileReadOutput == [][C35_FileReadStep]_vars

\* "/a" was read into address 0 and its length 1 into the last four bytes.
C35_Witness ==
    /\ last.op = "file_read" /\ last.ret = 0 /\ ~last.trap /\ ~last.panic
    /\ gmem.bytes[1] = 72
    /\ SubSeq(gmem.bytes, MemSize - 3, MemSize) = <<1, 0, 0, 0>>

----------------------------------------------------------------------------
(* Properties of the sender of enqueued messages (under SpecEscalation) *)

\* Every queue is as before or grew by one message sent by `sender` without
\* capabilities.
C36_OnlyFrom(sender) ==
    /\ DOMAIN endpoints' = DOMAIN endpoints
    /\ \A p \in DOMAIN endpoints :
           \/ endpoints'[p].messages = endpoints[p].messages
           \/ /\ Len(endpoints'[p].messages) = Len(endpoints[p].messages) + 1
              /\ SubSeq(endpoints'[p].messages, 1, Len(endpoints[p].messages))
                     = endpoints[p].messages
              /\ endpoints'[p].messages[Len(endpoints'[p].messages)].sender = sender
              /\ endpoints'[p].messages[Len(endpoints'[p].messages)].capabilities = <<>>

C36_SendIpcStep ==
    (last'.op = "send_ipc" /\ endpoints' # endpoints) =>
        \A a \in Callers, t \in Pids, s \in Payload :
            send_ipc(a, t, s[1], s[2]) => C36_OnlyFrom(a)

C36_RequestStep ==
    (last'.op = "request_capability" /\ endpoints' # endpoints) =>
        \A a \in Callers, kind \in 0..3, s \in EscalationDetails :
            request_capability(a, kind, s[1], s[2]) => C36_OnlyFrom(a)

\* C36: every message a send_ipc or request_capability call enqueues is
\* appended to a queue with the calling agent's pid as its sender and an empty
\* capability list; the call changes the queues in no other way.
C36_SenderIsCaller == [][C36_SendIpcStep /\ C36_RequestStep]_vars

\* Agent 2 asked for a capability: the supervisor's queue ends with its
\* request, sent by 2, and agent 2's own queue with a message sent by agent 1.
C36_Witness ==
    /\ last.op = "request_capability"
    /\ KERNEL_SUPERVISOR_PID \in DOMAIN endpoints
    /\ endpoints[KERNEL_SUPERVISOR_PID].messages = <<Message(2, C27_Record(2, 0, <<>>), <<>>)>>
    /\ 2 \in DOMAIN endpoints
    /\ endpoints[2].messages = <<Message(1, <<47>>, <<>>)>>

----------------------------------------------------------------------------
(* Properties of file_list (under SpecList) *)

C37_FileListStep ==
    (last'.op = "file_list" /\ ~last'.panic /\ ~last'.trap /\ last'.ret = 0) =>
        \A a \in Callers, s \in Slices, o \in ReadPairs :
            (read_ok(s[1], s[2]) /\ alloc_ok(s[2])) =>
                \A prefix \in {read_bytes(s[1], s[2])} :
                    file_list(a, s[1], s[2], o[1], o[2]) =>
                        \A names \in {list_files_prefix(prefix)} :
                            /\ \A i \in 1..Len(names) :
                                   /\ starts_with(names[i], prefix)
                                   /\ can_read_file(agent_capabilities(a), names[i])
                            /\ o[1] + Len(join(names)) <= o[2] =>
                                   SubSeq(gmem'.bytes, o[1] + 1,
                                          o[1] + Len(join(names))) = join(names)

\* C37: whenever file_list(prefix) returns 0, every name of the listing it
\* wrote starts with prefix and satisfies can_read_file for the caller's bag.
C37_FileListConfined == [][C37_FileListStep]_vars

\* Agent 1 may read "/a" but not "/"; the VFS holds both; its file_list("/a")
\* returned 0 and wrote the two bytes "/a" and the length 2.
C37_Witness ==
    /\ last.op = "file_list" /\ last.ret = 0 /\ ~last.trap /\ ~last.panic
    /\ can_read_file(agent_capabilities(1), <<47, 97>>)
    /\ ~can_read_file(agent_capabilities(1), <<47>>)
    /\ \E i \in 1..Len(files) : files[i].name = <<47>>
    /\ gmem.bytes = <<47, 97, 255, 2, 0, 0, 0>>

----------------------------------------------------------------------------
(* Properties of denied calls (under SpecDenial) *)

\* In the current state the call has exactly one outcome: it returns 2
\* without trap and leaves the guest memory as it is.
C38_ReadDenied(a, s, o) ==
    /\ ENABLED (/\ file_read(a, s[1], s[2], o[1], o[2])
                /\ last' = HostResult("file_read", 2, FALSE) /\ gmem' = gmem)
    /\ ~ENABLED (/\ file_read(a, s[1], s[2], o[1], o[2])
                 /\ ~(last' = HostResult("file_read", 2, FALSE) /\ gmem' = gmem))

C38_WriteDenied(a, s, d) ==
    /\ ENABLED (/\ file_write(a, s[1], s[2], d[1], d[2])
                /\ last' = HostResult("file_write", 2, FALSE) /\ gmem' = gmem)
    /\ ~ENABLED (/\ file_write(a, s[1], s[2], d[1], d[2])
                 /\ ~(last' = HostResult("file_write", 2, FALSE) /\ gmem' = gmem))

C38_ListDenied(a, s, o) ==
    /\ ENABLED (/\ file_list(a, s[1], s[2], o[1], o[2])
                /\ last' = HostResult("file_list", 2, FALSE) /\ gmem' = gmem)
    /\ ~ENABLED (/\ file_list(a, s[1], s[2], o[1], o[2])
                 /\ ~(last' = HostResult("file_list", 2, FALSE) /\ gmem' = gmem))

C38_SendDenied(a, t, s) ==
    /\ ENABLED (/\ send_ipc(a, t, s[1], s[2])
                /\ last' = HostResult("send_ipc", 2, FALSE) /\ gmem' = gmem)
    /\ ~ENABLED (/\ send_ipc(a, t, s[1], s[2])
                 /\ ~(last' = HostResult("send_ipc", 2, FALSE) /\ gmem' = gmem))

\* The step changed nothing but VFS contents or endpoints (and the result of
\* the call that did it).
C38_DifferOnlyInGuarded ==
    /\ <<store, next_cap_id, agents, reg_next_id, network, gmem>>'
           = <<store, next_cap_id, agents, reg_next_id, network, gmem>>
    /\ files' # files \/ endpoints' # endpoints

C38_FileStep ==
    (C38_DifferOnlyInGuarded /\ endpoints' = endpoints) =>
        \A a \in Callers, s \in Slices :
            PathReadable(s[1], s[2]) /\ alloc_ok(s[2]) =>
                \A path \in {read_bytes(s[1], s[2])} :
                    /\ ~can_read_file(agent_capabilities(a), path) =>
                           \A o \in OutPairs :
                               /\ C38_ReadDenied(a, s, o) /\ C38_ReadDenied(a, s, o)'
                               /\ C38_ListDenied(a, s, o) /\ C38_ListDenied(a, s, o)'
                    /\ ~can_write_file(agent_capabilities(a), path) =>
                           \A d \in Payload :
                               C38_WriteDenied(a, s, d) /\ C38_WriteDenied(a, s, d)'

C38_SendStep ==
    (C38_DifferOnlyInGuarded /\ files' = files) =>
        \A a \in Callers, t \in Pids, s \in Payload :
            (gmem.exported /\ read_ok(s[1], s[2]) /\ alloc_ok(s[2])
             /\ ~can_send_to(agent_capabilities(a), t)) =>
                C38_SendDenied(a, t, s) /\ C38_SendDenied(a, t, s)'

\* C38: in the two states before and after any change of VFS contents only
\* (of endpoints only), a file_read, file_write or file_list call (a send_ipc
\* call) by an agent lacking the required capability has the same single
\* outcome: it returns 2 and leaves the guest memory as it is.
C38_DenialLeaksNothing == [][C38_FileStep /\ C38_SendStep]_vars

\* Agent 2, holding nothing, was denied a read in a VFS that, unlike the one
\* at boot, holds the file "/" written by agent 1, and with an endpoint for
\* pid 1, which did not exist at boot.
C38_Witness ==
    /\ last = HostResult("file_read", 2, FALSE)
    /\ agent_capabilities(2) = <<>>
    /\ can_read_file(agent_capabilities(1), <<47>>)
    /\ open_file(<<47>>) # None
    /\ 1 \in DOMAIN endpoints

----------------------------------------------------------------------------
(* Properties of send authority (under SpecHost) *)

\* The capability ids kernel code handed out at boot.
C39_BootIds == {1}

\* Every capability created since boot is a Network, FileSystem or Spawn
\* capability.
C39_EscalationKinds ==
    \A id \in CapIds \ C39_BootIds :
        \A c \in {validate_capability(id)} :
            c # None => c.tag \in {"Network", "FileSystem", "Spawn"}

\* The bag of agent a holds a capability given at boot that allows sending
\* to t.
C39_GivenSend(a, t) ==
    \E i \in 1..Len(agent_capabilities(a)) :
        /\ agent_capabilities(a)[i] \in C39_BootIds
        /\ \E c \in {validate_capability(agent_capabilities(a)[i])} :
               c # None /\ c.tag = "Process" /\ c.pid = t /\ c.can_send

\* A queue other than the supervisor's grows only by a message whose sender
\* was given the right to send there.
C39_EnqueueStep ==
    \A t \in DOMAIN endpoints' \ {KERNEL_SUPERVISOR_PID} :
        (t \in DOMAIN endpoints
         /\ Len(endpoints'[t].messages) > Len(endpoints[t].messages)) =>
            \A m \in {endpoints'[t].messages[Len(endpoints'[t].messages)]} :
                m.sender \in DOMAIN agents /\ C39_GivenSend(m.sender, t)

\* C39: escalation creates only Network, FileSystem and Spawn capabilities,
\* and no host call enqueues a message at the endpoint of a pid t other than 0
\* unless its caller was given a Process{pid = t, can_send = true} capability
\* by kernel code.
C39_NoSelfAcquiredSend == []C39_EscalationKinds /\ [][C39_EnqueueStep]_vars

\* Agent 2, spawned with nothing, has acquired capabilities by escalation and
\* was then denied a send; its request reached the supervisor's queue and
\* the queue of pid 2 is still empty.
C39_Witness ==
    /\ last = HostResult("send_ipc", 2, FALSE)
    /\ Len(agent_capabilities(2)) >= 1
    /\ \A i \in 1..Len(agent_capabilities(1)) :
           validate_capability(agent_capabilities(1)[i]).tag # "Process"
    /\ \E i \in 1..Len(endpoints[KERNEL_SUPERVISOR_PID].messages) :
           endpoints[KERNEL_SUPERVISOR_PID].messages[i].sender = 2
    /\ endpoints[2].messages = <<>>

----------------------------------------------------------------------------
(* Properties of the memory predicates on ranges that pass the top of the
   address space (under Spec) *)

\* The sum base + size of the Memory capability exceeds the machine word.
C40_Wraps(c) == c.tag = "Memory" /\ c.base + c.size > WordMax

\* C40: for a bag holding a resolvable Memory capability whose base + size
\* exceeds the machine word, can_read_memory and can_write_memory complete
\* without fault, and they return true only for an address that some
\* resolvable Memory capability of the bag with the access bit covers
\* (base <= a < base + size, computed without wrap-around).
C40_WrapGrantsNothing ==
    \A B \in Bags : \A a \in Addrs :
        (\E c \in Resolved(B) : C40_Wraps(c)) =>
            /\ ~mem_check_panics(B, a, "read")
            /\ ~mem_check_panics(B, a, "write")
            /\ can_read_memory(B, a) =>
                   \E c \in Resolved(B) : c.tag = "Memory" /\ c.read /\ Covers(c, a)
            /\ can_write_memory(B, a) =>
                   \E c \in Resolved(B) : c.tag = "Memory" /\ c.write /\ Covers(c, a)

\* The part of C40 that holds in either build: the predicates never return
\* true for an address no resolvable Memory capability of the bag covers.
C40_NeverTrueOutside ==
    \A B \in Bags : \A a \in Addrs :
        /\ can_read_memory(B, a) =>
               \E c \in Resolved(B) : c.tag = "Memory" /\ c.read /\ Covers(c, a)
        /\ can_write_memory(B, a) =>
               \E c \in Resolved(B) : c.tag = "Memory" /\ c.write /\ Covers(c, a)

====
